---- MODULE Spec2Model ----
(***************************************************************************)
(* Model of the paper search pipeline of rs-academic-paper-interpreter:    *)
(* PaperClient::search (parallel fan-out to arXiv and Semantic Scholar,    *)
(* merge, exact de-duplication), the title normaliser, the fuzzy title     *)
(* matcher and search_by_title_fuzzy; of the Paper Record with its         *)
(* enrichment and setters; of cmd_export with its citation fetches and     *)
(* keyword step; and of PaperSummary with the citation statistics.         *)
(*                                                                         *)
(* A string is a sequence of characters; a character is a one-character    *)
(* TLA+ string.  An Option is a sequence of at most one element.           *)
(***************************************************************************)
EXTENDS Integers, Sequences, FiniteSets, TLC

VARIABLES
    op,            \* which entry point runs: "search", "fuzzy", or the function under study
    params,        \* the SearchParams handed to PaperClient::search
    threshold,     \* search_by_title_fuzzy's threshold, a fraction <<n, d>>
    pc,            \* position of PaperClient::search / search_by_title_fuzzy
    pcA,           \* position of the arXiv future of tokio::join!
    pcS,           \* position of the Semantic Scholar future of tokio::join!
    arxiv_result,  \* AppResult<Vec<ArxivPaper>> of the arXiv future
    ss_result,     \* AppResult<Vec<SsPaper>> of the Semantic Scholar future
    order,         \* the futures in the order they completed
    net,           \* the adapters whose network query has been issued
    result,        \* what PaperClient::search returned
    matched,       \* what search_by_title_fuzzy returned
    input,         \* argument of the pure function under test
    output,        \* its successive return values
    the_paper,     \* the AcademicPaper being mutated / the target paper of cmd_export
    now,           \* what Local::now() returns
    original,      \* the paper as its constructor returned it
    before,        \* the paper before the latest mutating call
    call,          \* the latest mutating call: its name, argument and ordinal
    args,          \* cmd_export's arguments and the environment it reads
    xpc,           \* position of cmd_export
    pcC,           \* position of citations_future of tokio::join!
    pcR,           \* position of references_future of tokio::join!
    citations_result,   \* anyhow::Result<Option<CitationData>> of citations_future
    references_result,  \* anyhow::Result<Option<ReferenceData>> of references_future
    calls,         \* the requests issued to the citation-graph provider, in order
    llm_calls,     \* the requests extract_keywords_with_provider issued to the LLM, in order
    exported,      \* the ExportedPaper under construction
    export_options,  \* cmd_export's local ExportOptions
    outcome        \* what cmd_export returned

searchVars == <<op, params, threshold, pc, pcA, pcS, arxiv_result, ss_result,
                order, net, result, matched>>
fnVars == <<input, output>>
paperVars == <<the_paper, now, original, before, call>>
exportVars == <<args, xpc, pcC, pcR, citations_result, references_result, calls,
                llm_calls, exported, export_options, outcome>>
vars == <<op, params, threshold, pc, pcA, pcS, arxiv_result, ss_result,
          order, net, result, matched, input, output, paperVars, exportVars>>

\* Option<T>: None is the empty sequence, Some(x) the one-element sequence <<x>>.
None == <<>>
Some(x) == <<x>>
is_some(o) == o # <<>>

(***************************************************************************)
(* Bounds of the model.                                                    *)
(***************************************************************************)
MaxLen == 3        \* longest string given to normalize_title on its own
MaxResults == 2    \* most records one adapter returns for one query
MaxPapers == 3     \* longest list given to deduplicate_papers / the matcher

(***************************************************************************)
(* Characters, by the classes normalize_title tells apart.                 *)
(***************************************************************************)
Tab == "\t"
Upper == {"A"}
Lower == {"a", "b"}
Digit == {"1"}
White == {" ", Tab}
Punct == {"!"}
Chars == Upper \cup Lower \cup Digit \cup White \cup Punct

RECURSIVE StringsUpTo(_)
StringsUpTo(n) ==
    IF n = 0 THEN {<<>>}
    ELSE LET shorter == StringsUpTo(n - 1)
         IN  shorter \cup {Append(s, c) : s \in {t \in shorter : Len(t) = n - 1}, c \in Chars}

\* char::to_lowercase: the lower-case mapping of one character
char_to_lowercase(c) == IF c = "A" THEN <<"a">> ELSE <<c>>

\* str::to_lowercase
RECURSIVE to_lowercase(_)
to_lowercase(s) ==
    IF s = <<>> THEN <<>>
    ELSE char_to_lowercase(Head(s)) \o to_lowercase(Tail(s))

is_alphanumeric(c) == c \in Upper \cup Lower \cup Digit
is_whitespace(c) == c \in White

\* str::split_whitespace: the maximal runs of non-whitespace characters
RECURSIVE split_whitespace_from(_, _, _)
split_whitespace_from(s, word, words) ==
    IF s = <<>> THEN (IF word = <<>> THEN words ELSE Append(words, word))
    ELSE IF is_whitespace(Head(s))
         THEN split_whitespace_from(Tail(s), <<>>,
                                    IF word = <<>> THEN words ELSE Append(words, word))
         ELSE split_whitespace_from(Tail(s), Append(word, Head(s)), words)

split_whitespace(s) == split_whitespace_from(s, <<>>, <<>>)

\* [&str]::join(" ")
RECURSIVE join_space(_)
join_space(words) ==
    IF words = <<>> THEN <<>>
    ELSE IF Len(words) = 1 THEN words[1]
    ELSE words[1] \o <<" ">> \o join_space(Tail(words))

\* A faulty normaliser: filters and lower-cases but keeps the whitespace as it is.
normalize_title_no_collapse(title) ==
    SelectSeq(to_lowercase(title), LAMBDA c : is_alphanumeric(c) \/ is_whitespace(c))

\* PaperClient::normalize_title
normalize_title(title) ==
    join_space(split_whitespace(
        SelectSeq(to_lowercase(title), LAMBDA c : is_alphanumeric(c) \/ is_whitespace(c))))

(***************************************************************************)
(* Paper records.  A raw record of an adapter carries its title and the    *)
(* identifier the adapter gave it; AcademicPaper keeps both and remembers  *)
(* the constructor that built it.                                          *)
(***************************************************************************)
ArXiv == "ArXiv"
SemanticScholar == "SemanticScholar"

\* AcademicPaper::from_arxiv
from_arxiv(raw) ==
    [title |-> raw.title, source |-> ArXiv, id |-> raw.id,
     ss_enriched |-> FALSE, extracted_text |-> FALSE]

\* AcademicPaper::from_semantic_scholar (a missing title becomes the empty string)
from_semantic_scholar(raw) ==
    [title |-> IF is_some(raw.title) THEN raw.title[1] ELSE <<>>,
     source |-> SemanticScholar, id |-> raw.id,
     ss_enriched |-> FALSE, extracted_text |-> FALSE]

map_from_arxiv(raws) == [i \in 1..Len(raws) |-> from_arxiv(raws[i])]
map_from_semantic_scholar(raws) == [i \in 1..Len(raws) |-> from_semantic_scholar(raws[i])]

\* A faulty comparison: titles that differ in their last character still match.
titles_match_prefix(title1, title2) ==
    \/ title1 = title2
    \/ /\ Len(title1) = Len(title2)
       /\ Len(title1) > 0
       /\ SubSeq(title1, 1, Len(title1) - 1) = SubSeq(title2, 1, Len(title2) - 1)

\* PaperClient::titles_match
titles_match(title1, title2) == title1 = title2

\* the closure of deduplicate_papers: does `paper` duplicate a paper already kept?
is_duplicate(paper, unique_papers) ==
    \E i \in 1..Len(unique_papers) :
        titles_match(normalize_title(paper.title), normalize_title(unique_papers[i].title))

RECURSIVE dedup_loop(_, _)
dedup_loop(papers, unique_papers) ==
    IF papers = <<>> THEN unique_papers
    ELSE dedup_loop(Tail(papers),
                    IF is_duplicate(Head(papers), unique_papers)
                    THEN unique_papers
                    ELSE Append(unique_papers, Head(papers)))

\* A faulty de-duplication: a later duplicate replaces the paper kept before.
RECURSIVE dedup_keep_last(_)
dedup_keep_last(papers) ==
    IF papers = <<>> THEN <<>>
    ELSE IF is_duplicate(Head(papers), Tail(papers))
         THEN dedup_keep_last(Tail(papers))
         ELSE <<Head(papers)>> \o dedup_keep_last(Tail(papers))

\* PaperClient::deduplicate_papers
deduplicate_papers(papers) == dedup_loop(papers, <<>>)

(***************************************************************************)
(* Fractions <<n, d>> with d > 0 stand for the f64 values of the matcher.  *)
(***************************************************************************)
Min2(x, y) == IF x <= y THEN x ELSE y
Max2(x, y) == IF x >= y THEN x ELSE y
FracLess(x, y) == x[1] * y[2] < y[1] * x[2]
FracEq(x, y) == x[1] * y[2] = y[1] * x[2]
FracLeq(x, y) == x[1] * y[2] <= y[1] * x[2]

\* one row of the edit-distance table from the row above it
RECURSIVE lev_next_row(_, _, _, _)
lev_next_row(row, a_elem, b, new) ==
    LET j == Len(new)
    IN  IF j = Len(b) + 1 THEN new
        ELSE LET cost == IF a_elem = b[j] THEN 0 ELSE 1
                 cell == Min2(new[j] + 1, Min2(row[j + 1] + 1, row[j] + cost))
             IN  lev_next_row(row, a_elem, b, Append(new, cell))

RECURSIVE lev_rows(_, _, _)
lev_rows(a, b, row) ==
    IF a = <<>> THEN row[Len(b) + 1]
    ELSE lev_rows(Tail(a), b, lev_next_row(row, Head(a), b, <<row[1] + 1>>))

\* strsim::levenshtein
levenshtein(a, b) == lev_rows(a, b, [j \in 1..(Len(b) + 1) |-> j - 1])

\* strsim::normalized_levenshtein: the similarity, 1 for two empty strings
normalized_levenshtein(a, b) ==
    IF a = <<>> /\ b = <<>> THEN <<1, 1>>
    ELSE LET m == Max2(Len(a), Len(b))
         IN  <<m - levenshtein(a, b), m>>

\* the closure of find_best_match_by_title: 1.0 - similarity
title_distance(normalized_query, paper) ==
    LET similarity == normalized_levenshtein(normalized_query, normalize_title(paper.title))
    IN  <<similarity[2] - similarity[1], similarity[2]>>

\* A faulty fold: on equal distances the later candidate wins.
min_by_last_step(x, y) == IF FracLess(x[2], y[2]) THEN x ELSE y

\* Iterator::min_by's fold step: keep x unless it compares Greater than y
min_by_step(x, y) == IF FracLess(y[2], x[2]) THEN y ELSE x

RECURSIVE min_by(_, _)
min_by(best, rest) ==
    IF rest = <<>> THEN best
    ELSE min_by(min_by_step(best, Head(rest)), Tail(rest))

\* PaperClient::find_best_match_by_title: None, or Some(<<idx, distance>>), idx from 0
find_best_match_by_title(papers, query) ==
    IF papers = <<>> THEN None
    ELSE LET normalized_query == normalize_title(query)
             scored == [i \in 1..Len(papers) |->
                            <<i - 1, title_distance(normalized_query, papers[i])>>]
         IN  Some(min_by(Head(scored), Tail(scored)))

(***************************************************************************)
(* Requests and adapter responses the model draws from.                    *)
(***************************************************************************)
\* raw titles: "Ab" and "ab!" share the normalized title "ab"; "b" does not
TitlePool == {<<"A", "b">>, <<"a", "b", "!">>, <<"b">>}
AnyText == <<"a">>
Thresholds == {<<0, 1>>, <<1, 2>>, <<1, 1>>}

RECURSIVE SeqsUpTo(_, _)
SeqsUpTo(S, n) ==
    IF n = 0 THEN {<<>>}
    ELSE LET shorter == SeqsUpTo(S, n - 1)
         IN  shorter \cup {Append(s, x) : s \in {t \in shorter : Len(t) = n - 1}, x \in S}

\* what the arXiv API may answer: records in the order returned, ids by position
ArxivResponses ==
    {[i \in 1..Len(ts) |-> [id |-> i, title |-> ts[i]]] : ts \in SeqsUpTo(TitlePool, MaxResults)}

\* what the Semantic Scholar API may answer when it answers
SsResponses ==
    {[i \in 1..Len(ts) |-> [id |-> i, title |-> Some(ts[i])]] : ts \in SeqsUpTo(TitlePool, MaxResults)}

OptText == {None, Some(AnyText)}
OptTitle == {None} \cup {Some(t) : t \in TitlePool}

\* SearchParams::new: every filter unset, max_results 10
DefaultMaxResults == 10
FuzzyMaxResults == 20
SearchParamsNew ==
    [query |-> None, title |-> None, author |-> None, abstract_contains |-> None,
     arxiv_id |-> None, ss_id |-> None, max_results |-> DefaultMaxResults]

\* the requests a caller can build with the with_* setters
AllSearchParams ==
    {[SearchParamsNew EXCEPT !.query = q, !.title = t, !.author = a,
                             !.abstract_contains = b, !.arxiv_id = x, !.ss_id = y] :
        q \in OptText, t \in OptTitle, a \in OptText, b \in OptText,
        x \in OptText, y \in OptText}

\* SearchParams::is_id_lookup
is_id_lookup(p) == is_some(p.arxiv_id) \/ is_some(p.ss_id)

\* SearchParams::has_search_criteria
has_search_criteria(p) ==
    is_some(p.query) \/ is_some(p.title) \/ is_some(p.author) \/ is_some(p.abstract_contains)

(***************************************************************************)
(* Errors and results.                                                     *)
(***************************************************************************)
NoError == [kind |-> "", msg |-> "", detail |-> <<>>]
AppError(kind, msg) == [kind |-> kind, msg |-> msg, detail |-> <<>>]

OkRecords(records) == [ok |-> TRUE, records |-> records, err |-> NoError]
ErrRecords(err) == [ok |-> FALSE, records |-> <<>>, err |-> err]

OkSearch(papers, sources) ==
    [ok |-> TRUE, papers |-> papers, sources |-> sources, err |-> NoError]
ErrSearch(err) == [ok |-> FALSE, papers |-> <<>>, sources |-> <<>>, err |-> err]

OkPaper(paper) == [ok |-> TRUE, paper |-> Some(paper), err |-> NoError]
ErrPaper(err) == [ok |-> FALSE, paper |-> None, err |-> err]

\* ArxivClient::build_query: does the request yield an arXiv query?
arxiv_build_query_ok(p) ==
    \/ is_some(p.title) \/ is_some(p.author) \/ is_some(p.abstract_contains)
    \/ is_some(p.query)

\* SemanticScholarClient::build_query_text: does the request yield a query text?
ss_build_query_text_ok(p) == is_some(p.query) \/ is_some(p.title) \/ is_some(p.author)

\* A faulty bookkeeping: both sources are listed whatever their outcome.
merge_sources_both(ar, sr) == <<ArXiv, SemanticScholar>>

\* the sources pushed by the two `if let Ok` blocks of search
merge_sources(ar, sr) ==
    (IF ar.ok THEN <<ArXiv>> ELSE <<>>) \o (IF sr.ok THEN <<SemanticScholar>> ELSE <<>>)

\* the papers pushed by the two `if let Ok` blocks of search, before de-duplication
merge_papers(ar, sr) ==
    (IF ar.ok THEN map_from_arxiv(ar.records) ELSE <<>>)
        \o (IF sr.ok THEN map_from_semantic_scholar(sr.records) ELSE <<>>)

\* A faulty merge: an empty list is returned as a result when a source succeeded.
merge_results_ok_when_any_source(ar, sr) ==
    LET papers == deduplicate_papers(merge_papers(ar, sr))
    IN  IF papers = <<>> /\ ~ar.ok /\ ~sr.ok
        THEN ErrSearch(AppError("PaperNotFound", "No papers found matching the search criteria"))
        ELSE OkSearch(papers, merge_sources(ar, sr))

\* PaperClient::search from `let mut result = SearchResult::new()` to its return
merge_results(ar, sr) ==
    LET papers == deduplicate_papers(merge_papers(ar, sr))
    IN  IF papers = <<>>
        THEN ErrSearch(AppError("PaperNotFound", "No papers found matching the search criteria"))
        ELSE OkSearch(papers, merge_sources(ar, sr))

(***************************************************************************)
(* PaperClient::search and PaperClient::search_by_title_fuzzy.             *)
(***************************************************************************)
\* "{:.2}": a fraction rounded to hundredths
Fmt2(f) == (200 * f[1] + f[2]) \div (2 * f[2])

\* SearchParams::new().with_title(title).with_max_results(20)
fuzzy_params(title) ==
    [SearchParamsNew EXCEPT !.title = Some(title), !.max_results = FuzzyMaxResults]

IdleSearch ==
    /\ pc = "start" /\ pcA = "idle" /\ pcS = "idle"
    /\ arxiv_result = None /\ ss_result = None
    /\ order = <<>> /\ net = {} /\ result = None /\ matched = None

IdleFn == input = <<>> /\ output = <<>>

\* no paper record under mutation, cmd_export not running
IdlePaper ==
    the_paper = None /\ now = 0 /\ original = None /\ before = None /\ call = None

IdleExport ==
    /\ args = None /\ xpc = "idle" /\ pcC = "idle" /\ pcR = "idle"
    /\ citations_result = None /\ references_result = None
    /\ calls = <<>> /\ llm_calls = <<>>
    /\ exported = None /\ export_options = None /\ outcome = None

Init ==
    /\ \/ op = "search" /\ params \in AllSearchParams /\ threshold = <<0, 1>>
       \/ /\ op = "fuzzy"
          /\ threshold \in Thresholds
          /\ \E t \in TitlePool : params = fuzzy_params(t)
    /\ IdleSearch
    /\ IdleFn
    /\ IdlePaper
    /\ IdleExport

\* A faulty fan-out: the Semantic Scholar query waits for the arXiv one to succeed.
ss_future_runnable_after_arxiv ==
    /\ pc = "join" /\ pcS \in {"build", "net"}
    /\ pcA = "done" /\ arxiv_result # None /\ arxiv_result[1].ok

\* tokio::join! polls each future that has not completed, whatever the other did
arxiv_future_runnable == pc = "join" /\ pcA \in {"build", "net"}
ss_future_runnable == pc = "join" /\ pcS \in {"build", "net"}

\* search, not an ID lookup: the two futures are created and handed to tokio::join!
SearchStart ==
    /\ pc = "start"
    /\ ~is_id_lookup(params)
    /\ pc' = "join" /\ pcA' = "build" /\ pcS' = "build"
    /\ UNCHANGED <<op, params, threshold, arxiv_result, ss_result, order, net,
                   result, matched, input, output>>
    /\ UNCHANGED <<paperVars, exportVars>>

\* ArxivClient::search up to its await: build_query, then the request is sent
ArxivBuildQuery ==
    /\ arxiv_future_runnable /\ pcA = "build"
    /\ IF arxiv_build_query_ok(params)
       THEN /\ pcA' = "net"
            /\ net' = net \cup {ArXiv}
            /\ UNCHANGED <<arxiv_result, order>>
       ELSE /\ pcA' = "done"
            /\ arxiv_result' =
                   Some(ErrRecords(AppError("ArxivError", "No search criteria provided")))
            /\ order' = Append(order, ArXiv)
            /\ UNCHANGED net
    /\ UNCHANGED <<op, params, threshold, pc, pcS, ss_result, result, matched,
                   input, output>>
    /\ UNCHANGED <<paperVars, exportVars>>

\* ArxivClient::search after its await: whatever the API returned is Ok
ArxivRespond ==
    /\ arxiv_future_runnable /\ pcA = "net"
    /\ \E records \in ArxivResponses : arxiv_result' = Some(OkRecords(records))
    /\ pcA' = "done"
    /\ order' = Append(order, ArXiv)
    /\ UNCHANGED <<op, params, threshold, pc, pcS, ss_result, net, result, matched,
                   input, output>>
    /\ UNCHANGED <<paperVars, exportVars>>

\* SemanticScholarClient::search up to its await: build_query_text, then the request
SsBuildQueryText ==
    /\ ss_future_runnable /\ pcS = "build"
    /\ IF ss_build_query_text_ok(params)
       THEN /\ pcS' = "net"
            /\ net' = net \cup {SemanticScholar}
            /\ UNCHANGED <<ss_result, order>>
       ELSE /\ pcS' = "done"
            /\ ss_result' =
                   Some(ErrRecords(AppError("SemanticScholarError", "No search criteria provided")))
            /\ order' = Append(order, SemanticScholar)
            /\ UNCHANGED net
    /\ UNCHANGED <<op, params, threshold, pc, pcA, arxiv_result, result, matched,
                   input, output>>
    /\ UNCHANGED <<paperVars, exportVars>>

\* SemanticScholarClient::search after its await: the records, or "Search failed"
SsRespond ==
    /\ ss_future_runnable /\ pcS = "net"
    /\ \/ \E records \in SsResponses : ss_result' = Some(OkRecords(records))
       \/ ss_result' = Some(ErrRecords(AppError("SemanticScholarError", "Search failed")))
    /\ pcS' = "done"
    /\ order' = Append(order, SemanticScholar)
    /\ UNCHANGED <<op, params, threshold, pc, pcA, arxiv_result, net, result, matched,
                   input, output>>
    /\ UNCHANGED <<paperVars, exportVars>>

\* tokio::join! returns; search merges, de-duplicates and returns
SearchJoin ==
    /\ pc = "join" /\ pcA = "done" /\ pcS = "done"
    /\ result' = Some(merge_results(arxiv_result[1], ss_result[1]))
    /\ pc' = IF op = "fuzzy" THEN "searched" ELSE "done"
    /\ UNCHANGED <<op, params, threshold, pcA, pcS, arxiv_result, ss_result, order, net,
                   matched, input, output>>
    /\ UNCHANGED <<paperVars, exportVars>>

\* A faulty acceptance test: a distance equal to the threshold is rejected.
fuzzy_select_strict(searched, title, thr) ==
    IF ~searched.ok THEN ErrPaper(searched.err)
    ELSE LET best == find_best_match_by_title(searched.papers, title)
         IN  IF best = None THEN ErrPaper(AppError("PaperNotFound", "No papers found"))
             ELSE LET idx == best[1][1]
                      distance == best[1][2]
                  IN  IF ~FracLess(distance, thr)
                      THEN ErrPaper([kind |-> "PaperNotFound",
                                     msg |-> "No paper found matching (best match distance, threshold)",
                                     detail |-> <<Fmt2(distance), Fmt2(thr)>>])
                      ELSE OkPaper(searched.papers[idx + 1])

\* search_by_title_fuzzy from `self.search(params).await?` to its return
fuzzy_select(searched, title, thr) ==
    IF ~searched.ok THEN ErrPaper(searched.err)
    ELSE LET best == find_best_match_by_title(searched.papers, title)
         IN  IF best = None THEN ErrPaper(AppError("PaperNotFound", "No papers found"))
             ELSE LET idx == best[1][1]
                      distance == best[1][2]
                  IN  IF FracLess(thr, distance)
                      THEN ErrPaper([kind |-> "PaperNotFound",
                                     msg |-> "No paper found matching (best match distance, threshold)",
                                     detail |-> <<Fmt2(distance), Fmt2(thr)>>])
                      ELSE OkPaper(searched.papers[idx + 1])

FuzzySelect ==
    /\ pc = "searched"
    /\ matched' = Some(fuzzy_select(result[1], params.title[1], threshold))
    /\ pc' = "done"
    /\ UNCHANGED <<op, params, threshold, pcA, pcS, arxiv_result, ss_result, order, net,
                   result, input, output>>
    /\ UNCHANGED <<paperVars, exportVars>>

\* A faulty fetch: a failed enrichment lookup or a failed text extraction is returned
\* as the error of the fetch.
fetch_by_arxiv_id_strict(found, title, enrich_ok, extract_ok) ==
    IF ~found THEN ErrPaper(AppError("PaperNotFound", "arXiv paper not found"))
    ELSE IF ~enrich_ok THEN ErrPaper(AppError("SemanticScholarError", "Search failed"))
    ELSE IF ~extract_ok THEN ErrPaper(AppError("PdfError", "Text extraction failed"))
    ELSE OkPaper([from_arxiv([id |-> 1, title |-> title]) EXCEPT
                      !.ss_enriched = TRUE, !.extracted_text = TRUE])

\* PaperClient::fetch_by_arxiv_id: Err when arXiv has no such paper; enrichment and
\* text extraction are attempted and their failures absorbed
fetch_by_arxiv_id(found, title, enrich_ok, extract_ok) ==
    IF ~found THEN ErrPaper(AppError("PaperNotFound", "arXiv paper not found"))
    ELSE OkPaper([from_arxiv([id |-> 1, title |-> title]) EXCEPT
                      !.ss_enriched = enrich_ok, !.extracted_text = extract_ok])

\* PaperClient::fetch_by_ss_id
fetch_by_ss_id(found, title, extract_ok) ==
    IF ~found THEN ErrPaper(AppError("SemanticScholarError", "Fetch details failed"))
    ELSE OkPaper([from_semantic_scholar([id |-> 1, title |-> Some(title)]) EXCEPT
                      !.extracted_text = extract_ok])

\* PaperClient::fetch_by_id
fetch_by_id(p, a, s) ==
    IF is_some(p.arxiv_id) /\ ~a.ok THEN ErrSearch(a.err)
    ELSE IF is_some(p.ss_id) /\ ~s.ok THEN ErrSearch(s.err)
    ELSE OkSearch((IF is_some(p.arxiv_id) THEN a.paper ELSE <<>>)
                      \o (IF is_some(p.ss_id) THEN s.paper ELSE <<>>),
                  (IF is_some(p.arxiv_id) THEN <<ArXiv>> ELSE <<>>)
                      \o (IF is_some(p.ss_id) THEN <<SemanticScholar>> ELSE <<>>))

\* search on an ID lookup: the fan-out is bypassed, each given id is fetched in turn
SearchById ==
    /\ pc = "start"
    /\ is_id_lookup(params)
    /\ \E t \in TitlePool, af \in BOOLEAN, en \in BOOLEAN, xa \in BOOLEAN,
          sf \in BOOLEAN, xs \in BOOLEAN :
          LET a == fetch_by_arxiv_id(af, t, en, xa)
              s == fetch_by_ss_id(sf, t, xs)
              \* search_exact_title follows a successful arXiv fetch
              enrich_tried == is_some(params.arxiv_id) /\ af
              \* fetch_details is reached unless the arXiv fetch returned early
              details_tried == is_some(params.ss_id) /\ (is_some(params.arxiv_id) => a.ok)
          IN  /\ result' = Some(fetch_by_id(params, a, s))
              /\ net' = (IF is_some(params.arxiv_id) THEN {ArXiv} ELSE {})
                            \cup (IF enrich_tried \/ details_tried
                                  THEN {SemanticScholar} ELSE {})
    /\ pc' = "done"
    /\ UNCHANGED <<op, params, threshold, pcA, pcS, arxiv_result, ss_result, order,
                   matched, input, output>>
    /\ UNCHANGED <<paperVars, exportVars>>

Next ==
    \/ SearchStart
    \/ ArxivBuildQuery
    \/ ArxivRespond
    \/ SsBuildQueryText
    \/ SsRespond
    \/ SearchJoin
    \/ FuzzySelect
    \/ SearchById

Spec == Init /\ [][Next]_vars

(***************************************************************************)
(* The pure functions on their own: each specification draws an argument   *)
(* and applies the function to it.                                         *)
(***************************************************************************)
PurePool == {<<"A", "b">>, <<"a", "b", "!">>, <<"b">>, <<"a">>, <<>>}

\* lists of papers as a caller may hold them: titles from the pool, ids by position
PaperLists ==
    {[i \in 1..Len(ts) |-> from_arxiv([id |-> i, title |-> ts[i]])] :
        ts \in SeqsUpTo(PurePool, MaxPapers)}

InitPure(name) ==
    /\ op = name /\ params = SearchParamsNew /\ threshold = <<0, 1>>
    /\ IdleSearch
    /\ output = <<>>
    /\ IdlePaper
    /\ IdleExport

\* normalize_title(input), then normalize_title of what it returned
InitNormalize == InitPure("normalize_title") /\ input \in StringsUpTo(MaxLen)

NormalizeInput ==
    /\ op = "normalize_title" /\ output = <<>>
    /\ output' = <<normalize_title(input)>>
    /\ UNCHANGED <<op, params, threshold, pc, pcA, pcS, arxiv_result, ss_result,
                   order, net, result, matched, input>>
    /\ UNCHANGED <<paperVars, exportVars>>

NormalizeAgain ==
    /\ op = "normalize_title" /\ Len(output) = 1
    /\ output' = Append(output, normalize_title(output[1]))
    /\ UNCHANGED <<op, params, threshold, pc, pcA, pcS, arxiv_result, ss_result,
                   order, net, result, matched, input>>
    /\ UNCHANGED <<paperVars, exportVars>>

NextNormalize == NormalizeInput \/ NormalizeAgain

SpecNormalize == InitNormalize /\ [][NextNormalize]_vars

\* deduplicate_papers(input)
InitDedup == InitPure("deduplicate_papers") /\ input \in PaperLists

Deduplicate ==
    /\ op = "deduplicate_papers" /\ output = <<>>
    /\ output' = <<deduplicate_papers(input)>>
    /\ UNCHANGED <<op, params, threshold, pc, pcA, pcS, arxiv_result, ss_result,
                   order, net, result, matched, input>>
    /\ UNCHANGED <<paperVars, exportVars>>

NextDedup == Deduplicate

SpecDedup == InitDedup /\ [][NextDedup]_vars

\* find_best_match_by_title(input.papers, input.query)
InitBestMatch ==
    /\ InitPure("find_best_match_by_title")
    /\ input \in [papers : PaperLists, query : PurePool]

FindBestMatch ==
    /\ op = "find_best_match_by_title" /\ output = <<>>
    /\ output' = <<find_best_match_by_title(input.papers, input.query)>>
    /\ UNCHANGED <<op, params, threshold, pc, pcA, pcS, arxiv_result, ss_result,
                   order, net, result, matched, input>>
    /\ UNCHANGED <<paperVars, exportVars>>

NextBestMatch == FindBestMatch

SpecBestMatch == InitBestMatch /\ [][NextBestMatch]_vars

(***************************************************************************)
(* Reference definitions the properties are stated with.                   *)
(***************************************************************************)
\* the normalized title of a paper
NormOf(paper) == normalize_title(paper.title)

\* the papers of `papers` whose normalized title occurs at no earlier position
FirstOccurrences(papers) ==
    LET first(i) == \A j \in 1..(i - 1) : NormOf(papers[j]) # NormOf(papers[i])
        F[i \in 0..Len(papers)] ==
            IF i = 0 THEN <<>>
            ELSE IF first(i) THEN Append(F[i - 1], papers[i]) ELSE F[i - 1]
    IN  F[Len(papers)]

\* the edit distance by its textbook recurrence
RECURSIVE EditDistance(_, _)
EditDistance(a, b) ==
    IF a = <<>> THEN Len(b)
    ELSE IF b = <<>> THEN Len(a)
    ELSE IF Head(a) = Head(b) THEN EditDistance(Tail(a), Tail(b))
    ELSE 1 + Min2(EditDistance(Tail(a), b),
                  Min2(EditDistance(a, Tail(b)), EditDistance(Tail(a), Tail(b))))

\* 1 - similarity of the two normalized titles, as a fraction
RefDistance(query, paper) ==
    LET q == normalize_title(query)
        t == NormOf(paper)
    IN  IF q = <<>> /\ t = <<>> THEN <<0, 1>>
        ELSE <<EditDistance(q, t), Max2(Len(q), Len(t))>>

SeqRange(seq) == {seq[i] : i \in 1..Len(seq)}

(***************************************************************************)
(* C10                                                                     *)
(***************************************************************************)
\* the shape of a normalized title: lower-case letters, digits and single spaces
\* only, fixed by to_lowercase, no space at either end
IsNormalForm(n) ==
    /\ \A i \in 1..Len(n) : n[i] \in Lower \cup Digit \cup {" "}
    /\ to_lowercase(n) = n
    /\ \A i \in 1..(Len(n) - 1) : ~(n[i] = " " /\ n[i + 1] = " ")
    /\ n # <<>> => (~is_whitespace(n[1]) /\ ~is_whitespace(n[Len(n)]))

\* C10: normalize_title is idempotent, and what it returns is lower-case, holds
\* only alphanumeric characters and single spaces, and has no whitespace at
\* either end.
C10_NormalizeIdempotent ==
    op = "normalize_title" =>
        /\ Len(output) >= 1 => IsNormalForm(output[1])
        /\ Len(output) = 2 => output[2] = output[1]

\* a title with upper case, punctuation and a run of whitespace, normalized twice
C10_Witness ==
    /\ op = "normalize_title"
    /\ Len(output) = 2
    /\ \E i \in 1..Len(input) : input[i] \in Upper
    /\ \E i \in 1..(Len(input) - 1) : is_whitespace(input[i]) /\ is_whitespace(input[i + 1])
    /\ output[1] # input
    /\ output[1] # <<>>

(***************************************************************************)
(* C5                                                                      *)
(***************************************************************************)
\* C5: deduplicate_papers returns the first occurrence of every distinct
\* normalized title, in input order and unmodified: the kept titles are pairwise
\* distinct after normalization, every input title is represented, and two
\* records are duplicates exactly when their normalized titles are equal.
C5_DedupFirstOccurrence ==
    (op = "deduplicate_papers" /\ output # <<>>) =>
        LET out == output[1]
        IN  /\ out = FirstOccurrences(input)
            /\ \A i, j \in 1..Len(out) : i # j => NormOf(out[i]) # NormOf(out[j])
            /\ \A i \in 1..Len(out) : out[i] \in SeqRange(input)
            /\ \A i, j \in 1..Len(out) : i < j => out[i].id < out[j].id
            /\ {NormOf(q) : q \in SeqRange(out)} = {NormOf(q) : q \in SeqRange(input)}
            /\ \A q \in SeqRange(input) :
                   q \notin SeqRange(out) <=>
                       \E k \in SeqRange(input) : k.id < q.id /\ NormOf(k) = NormOf(q)

\* a list whose second record duplicates the first under normalization only, and
\* whose third is distinct: the second is dropped, the other two are kept
C5_Witness ==
    /\ op = "deduplicate_papers" /\ output # <<>>
    /\ Len(input) = 3
    /\ input[1].title # input[2].title
    /\ NormOf(input[1]) = NormOf(input[2])
    /\ NormOf(input[3]) # NormOf(input[1])
    /\ output[1] = <<input[1], input[3]>>

(***************************************************************************)
(* C8                                                                      *)
(***************************************************************************)
\* C8: find_best_match_by_title returns None exactly for the empty list; otherwise
\* it returns (i, d) with d the least distance 1 - similarity(normalize(query),
\* normalize(title)) over the candidates and i the first index attaining it.
C8_BestMatchFirstMinimum ==
    (op = "find_best_match_by_title" /\ output # <<>>) =>
        LET papers == input.papers
            best == output[1]
        IN  /\ best = None <=> papers = <<>>
            /\ best # None =>
                   LET idx == best[1][1]
                       d == best[1][2]
                   IN  /\ idx \in 0..(Len(papers) - 1)
                       /\ FracEq(d, RefDistance(input.query, papers[idx + 1]))
                       /\ \A j \in 1..Len(papers) :
                              FracLeq(d, RefDistance(input.query, papers[j]))
                       /\ \A j \in 1..idx :
                              FracLess(d, RefDistance(input.query, papers[j]))

\* two candidates at the same least distance, after a worse one: the earlier wins
C8_Witness ==
    /\ op = "find_best_match_by_title" /\ output # <<>>
    /\ Len(input.papers) = 3
    /\ output[1] # None
    /\ output[1][1][1] = 1
    /\ FracEq(RefDistance(input.query, input.papers[2]),
              RefDistance(input.query, input.papers[3]))
    /\ NormOf(input.papers[2]) # NormOf(input.papers[3])
    /\ FracLess(<<0, 1>>, output[1][1][2])

(***************************************************************************)
(* The fan-out search: C1, C2, C3, C4, C6, C7                              *)
(***************************************************************************)
\* search has returned on a request that is not an ID lookup
NonIdSearchReturned ==
    /\ op \in {"search", "fuzzy"}
    /\ ~is_id_lookup(params)
    /\ result # None

AR == arxiv_result[1]
SR == ss_result[1]
Res == result[1]
NoPapersFound == AppError("PaperNotFound", "No papers found matching the search criteria")

\* C1: when exactly one source query fails and the other returns at least one
\* record, search succeeds, its papers are the surviving source's records (first
\* occurrence of each normalized title) and `sources` is exactly the survivor.
C1_OneSourceSurvives ==
    NonIdSearchReturned =>
        /\ (~SR.ok /\ AR.ok /\ AR.records # <<>>) =>
               /\ Res.ok
               /\ Res.sources = <<ArXiv>>
               /\ Res.papers = FirstOccurrences(map_from_arxiv(AR.records))
               /\ \A i \in 1..Len(Res.papers) : Res.papers[i].source = ArXiv
        /\ (~AR.ok /\ SR.ok /\ SR.records # <<>>) =>
               /\ Res.ok
               /\ Res.sources = <<SemanticScholar>>
               /\ Res.papers = FirstOccurrences(map_from_semantic_scholar(SR.records))
               /\ \A i \in 1..Len(Res.papers) : Res.papers[i].source = SemanticScholar

\* the Semantic Scholar request was sent and failed, arXiv returned two records
C1_Witness ==
    /\ NonIdSearchReturned
    /\ SemanticScholar \in net /\ ~SR.ok
    /\ AR.ok /\ Len(AR.records) = 2
    /\ Res.ok /\ Res.sources = <<ArXiv>> /\ Len(Res.papers) = 2

\* C2 as stated: search fails with "no papers found" when both sources fail, and
\* only if both fail or both succeed with zero records combined.
C2_FailsOnlyIfBothFailOrBothEmpty ==
    NonIdSearchReturned =>
        /\ (~AR.ok /\ ~SR.ok) => (~Res.ok /\ Res.err = NoPapersFound)
        /\ ~Res.ok =>
               \/ ~AR.ok /\ ~SR.ok
               \/ AR.ok /\ SR.ok /\ Len(AR.records) + Len(SR.records) = 0

\* C2 amended: search fails, with "no papers found", exactly when no source
\* succeeded with at least one record; this includes one source failing while the
\* other succeeds with zero records.  Otherwise it returns a result.
C2_FailsIffNoRecords ==
    NonIdSearchReturned =>
        /\ ~Res.ok <=> ~((AR.ok /\ AR.records # <<>>) \/ (SR.ok /\ SR.records # <<>>))
        /\ ~Res.ok => Res.err = NoPapersFound
        /\ (~AR.ok /\ ~SR.ok) => ~Res.ok
        /\ Res.ok => Res.papers # <<>>

\* Semantic Scholar failed and arXiv succeeded with no record: search fails
C2_Witness ==
    /\ NonIdSearchReturned
    /\ ~SR.ok /\ AR.ok /\ AR.records = <<>>
    /\ ~Res.ok /\ Res.err = NoPapersFound

\* C3: the two queries run as concurrent tasks and the merge starts only after
\* both completed: a task that has not completed can always take its next step
\* whatever the other task did, the merge never runs before both outcomes are in,
\* both outcomes are kept, and the result is the merge of the two outcomes
\* whichever task finished first.
C3_JoinWaitsForBoth ==
    /\ (pc = "join" /\ pcA # "done") => arxiv_future_runnable
    /\ (pc = "join" /\ pcS # "done") => ss_future_runnable
    /\ pc = "join" => result = None
    /\ pcA = "done" <=> arxiv_result # None
    /\ pcS = "done" <=> ss_result # None
    /\ NonIdSearchReturned =>
           /\ pcA = "done" /\ pcS = "done"
           /\ order \in {<<ArXiv, SemanticScholar>>, <<SemanticScholar, ArXiv>>}
           /\ ArXiv \in net => AR.ok
           /\ Res = merge_results(AR, SR)
           /\ Res.ok <=> ((AR.ok /\ AR.records # <<>>) \/ (SR.ok /\ SR.records # <<>>))

\* Semantic Scholar failed first, arXiv answered afterwards and its records are
\* returned
C3_Witness ==
    /\ NonIdSearchReturned
    /\ order = <<SemanticScholar, ArXiv>>
    /\ SemanticScholar \in net /\ ~SR.ok
    /\ AR.ok /\ AR.records # <<>>
    /\ Res.ok

\* C4: the papers of a successful search are the exact-dedup of the arXiv records
\* followed by the Semantic Scholar records: kept arXiv records precede kept
\* Semantic Scholar records, order within a source is kept, and of an arXiv and a
\* Semantic Scholar record with one normalized title the arXiv record is kept.
C4_MergeOrder ==
    (NonIdSearchReturned /\ Res.ok) =>
        LET a == IF AR.ok THEN map_from_arxiv(AR.records) ELSE <<>>
            b == IF SR.ok THEN map_from_semantic_scholar(SR.records) ELSE <<>>
            papers == Res.papers
        IN  /\ papers = FirstOccurrences(a \o b)
            /\ \A i, j \in 1..Len(papers) :
                   (papers[i].source = ArXiv /\ papers[j].source = SemanticScholar) => i < j
            /\ \A i, j \in 1..Len(papers) :
                   (i < j /\ papers[i].source = papers[j].source) => papers[i].id < papers[j].id
            /\ \A i \in 1..Len(papers) : papers[i] \in SeqRange(a) \cup SeqRange(b)
            /\ \A x \in SeqRange(a), y \in SeqRange(b) :
                   NormOf(x) = NormOf(y) =>
                       /\ y \notin SeqRange(papers)
                       /\ \E k \in SeqRange(papers) : k.source = ArXiv /\ NormOf(k) = NormOf(x)

\* an arXiv record and a Semantic Scholar record differ in their raw titles and
\* agree after normalization; the arXiv one is kept, before a second Semantic
\* Scholar record
C4_Witness ==
    /\ NonIdSearchReturned /\ Res.ok
    /\ AR.ok /\ SR.ok /\ Len(AR.records) = 1 /\ Len(SR.records) = 2
    /\ AR.records[1].title # SR.records[1].title[1]
    /\ normalize_title(AR.records[1].title) = normalize_title(SR.records[1].title[1])
    /\ Len(Res.papers) = 2
    /\ Res.papers[1].source = ArXiv
    /\ Res.papers[2] = from_semantic_scholar(SR.records[2])

\* C6 as stated: every source listed in `sources` contributed at least one
\* record, and every source that contributed at least one record is listed.
C6_SourcesContributed ==
    (NonIdSearchReturned /\ Res.ok) =>
        /\ ArXiv \in SeqRange(Res.sources) <=> (AR.ok /\ AR.records # <<>>)
        /\ SemanticScholar \in SeqRange(Res.sources) <=> (SR.ok /\ SR.records # <<>>)

\* C7 as stated: a request with no query signal fails with the "no search
\* criteria" error, before any network call to either adapter.
C7_NoCriteriaError ==
    (op = "search" /\ result # None
        /\ ~is_id_lookup(params) /\ ~has_search_criteria(params)) =>
        /\ ~Res.ok
        /\ Res.err.msg = "No search criteria provided"
        /\ net = {}

(***************************************************************************)
(* C9                                                                      *)
(***************************************************************************)
\* the least distance of the query to the papers of a non-empty list
RefBestDistance(query, papers) ==
    CHOOSE d \in {RefDistance(query, papers[i]) : i \in 1..Len(papers)} :
        \A j \in 1..Len(papers) : FracLeq(d, RefDistance(query, papers[j]))

\* the first position of `papers` at the least distance
RefBestIndex(query, papers) ==
    CHOOSE i \in 1..Len(papers) :
        /\ FracEq(RefDistance(query, papers[i]), RefBestDistance(query, papers))
        /\ \A j \in 1..(i - 1) :
               ~FracEq(RefDistance(query, papers[j]), RefBestDistance(query, papers))

\* C9: search_by_title_fuzzy returns a paper iff the search succeeds and the
\* best distance over its papers is <= threshold, and then the paper at the
\* best-match index; when the best distance exceeds the threshold the error
\* carries the best distance and the threshold (two decimals each).
C9_FuzzyThreshold ==
    (op = "fuzzy" /\ matched # None) =>
        LET m == matched[1]
            title == params.title[1]
        IN  /\ m.ok <=> (Res.ok /\ FracLeq(RefBestDistance(title, Res.papers), threshold))
            /\ m.ok => m.paper = Some(Res.papers[RefBestIndex(title, Res.papers)])
            /\ ~Res.ok => m.err = Res.err
            /\ (Res.ok /\ ~m.ok) =>
                   /\ FracLess(threshold, RefBestDistance(title, Res.papers))
                   /\ m.err.kind = "PaperNotFound"
                   /\ m.err.detail = <<Fmt2(RefBestDistance(title, Res.papers)), Fmt2(threshold)>>

\* the best match lies exactly at the threshold and is returned
C9_Witness ==
    /\ op = "fuzzy" /\ matched # None
    /\ Res.ok /\ Len(Res.papers) >= 1
    /\ threshold = <<1, 2>>
    /\ FracEq(RefBestDistance(params.title[1], Res.papers), threshold)
    /\ matched[1].ok
    /\ matched[1].paper = Some(Res.papers[1])

(***************************************************************************)
(* The Paper Record (AcademicPaper), its constructors and its mutating     *)
(* operations.  In this part a String is a TLA+ string, "" the empty one.  *)
(***************************************************************************)
MaxOps == 2
MaxTime == 2

\* Option::unwrap_or / unwrap_or_default
unwrap_or(o, d) == IF o = None THEN d ELSE o[1]

\* ss_tools::structs::Author as the citation-graph provider returns it
SsAuthor(id, name, h, aff, papers, cites) ==
    [author_id |-> id, name |-> name, hindex |-> h, affiliations |-> aff,
     paper_count |-> papers, citation_count |-> cites]

SsAnn == SsAuthor(Some("A1"), Some("Ann"), Some(3), Some(<<"MIT">>), Some(4), Some(5))
SsAnnBare == SsAuthor(None, Some("Ann"), None, None, None, None)
SsBob == SsAuthor(Some("B1"), Some("Bob"), Some(1), Some(<<>>), Some(1), Some(0))
SsCy == SsAuthor(Some("C1"), Some("Cy"), Some(2), Some(<<"ETH">>), Some(2), Some(2))
SsNameless == SsAuthor(Some("N1"), None, Some(1), None, None, None)

SsAuthorLists ==
    {<<>>, <<SsAnn>>, <<SsAnnBare>>, <<SsCy>>, <<SsNameless>>, <<SsCy, SsAnn>>,
     <<SsAnn, SsBob>>, <<SsAnn, SsAnnBare>>}

\* ss_tools::structs::Paper, the fields the Paper Record reads
SsPaperBase ==
    [paper_id |-> Some("S1"), title |-> Some("T1"),
     citation_count |-> Some(3), reference_count |-> Some(2),
     influential_citation_count |-> Some(1),
     authors |-> None, citation_styles |-> None, open_access_pdf |-> None,
     is_open_access |-> None]

SsPapers ==
    {SsPaperBase, [SsPaperBase EXCEPT !.is_open_access = Some(TRUE)]}
    \cup {[SsPaperBase EXCEPT !.paper_id = i, !.citation_count = c,
                              !.reference_count = c,
                              !.influential_citation_count = c] :
             i \in {None, Some("S2")}, c \in {None, Some(0)}}
    \cup {[SsPaperBase EXCEPT !.authors = Some(l)] : l \in SsAuthorLists}
    \cup {[SsPaperBase EXCEPT !.citation_styles = Some([bibtex |-> b])] :
             b \in {None, Some("b1"), Some("b2")}}
    \cup {[SsPaperBase EXCEPT !.open_access_pdf = Some([url |-> u])] :
             u \in {None, Some("u1"), Some("u2")}}

\* arxiv_tools::Paper, the fields the Paper Record reads
ArxivPapers ==
    {[title |-> "T1", doi |-> "10.1/x", authors |-> names] :
        names \in {<<>>, <<"Ann">>, <<"Ann", "Bob">>, <<"Bob", "Ann">>, <<"Ann", "Ann">>}}

Author_from_ss_author(author) ==
    [ss_id |-> unwrap_or(author.author_id, ""),
     name |-> unwrap_or(author.name, ""),
     h_index |-> unwrap_or(author.hindex, 0),
     affiliations |-> unwrap_or(author.affiliations, <<>>),
     paper_count |-> unwrap_or(author.paper_count, 0),
     citation_count |-> unwrap_or(author.citation_count, 0)]

Author_from_arxiv_name(name) ==
    [ss_id |-> "", name |-> name, h_index |-> 0, affiliations |-> <<>>,
     paper_count |-> 0, citation_count |-> 0]

\* AcademicPaper::default(), the fields this model follows
AcademicPaper_default ==
    [ss_id |-> "", doi |-> "", title |-> "", authors |-> <<>>, bibtex |-> "",
     citations_count |-> 0, references_count |-> 0, influential_citation_count |-> 0,
     is_open_access |-> FALSE, open_access_pdf_url |-> None,
     ss_paper |-> None, analysis |-> None, extracted_text |-> None,
     created_at |-> 0, updated_at |-> 0]

AcademicPaper_from_arxiv(raw, t) ==
    [AcademicPaper_default EXCEPT
        !.title = raw.title,
        !.authors = [i \in 1..Len(raw.authors) |-> Author_from_arxiv_name(raw.authors[i])],
        !.doi = raw.doi,
        !.created_at = t,
        !.updated_at = t]

AcademicPaper_from_semantic_scholar(raw, t) ==
    [AcademicPaper_default EXCEPT
        !.ss_paper = Some(raw),
        !.ss_id = unwrap_or(raw.paper_id, ""),
        !.title = unwrap_or(raw.title, ""),
        !.authors = IF raw.authors = None THEN <<>>
                    ELSE [i \in 1..Len(raw.authors[1]) |->
                             Author_from_ss_author(raw.authors[1][i])],
        !.citations_count = unwrap_or(raw.citation_count, 0),
        !.references_count = unwrap_or(raw.reference_count, 0),
        !.influential_citation_count = unwrap_or(raw.influential_citation_count, 0),
        !.is_open_access = IF raw.open_access_pdf # None THEN TRUE
                           ELSE unwrap_or(raw.is_open_access, FALSE),
        !.open_access_pdf_url = IF raw.open_access_pdf # None
                                THEN raw.open_access_pdf[1].url ELSE None,
        !.bibtex = IF raw.citation_styles # None
                   THEN unwrap_or(raw.citation_styles[1].bibtex, "") ELSE "",
        !.created_at = t,
        !.updated_at = t]

\* self.authors.iter_mut().find(|a| a.name == name): the first such index, 0 if none
find_author(authors, name) ==
    IF \E i \in 1..Len(authors) : authors[i].name = name
    THEN CHOOSE i \in 1..Len(authors) :
            /\ authors[i].name = name
            /\ \A j \in 1..(i - 1) : authors[j].name # name
    ELSE 0

\* the body of `if let Some(existing)`: four fields of the matched author
enrich_author(existing, ss_author) ==
    [existing EXCEPT
        !.ss_id = unwrap_or(ss_author.author_id, ""),
        !.h_index = unwrap_or(ss_author.hindex, 0),
        !.paper_count = unwrap_or(ss_author.paper_count, 0),
        !.citation_count = unwrap_or(ss_author.citation_count, 0)]

\* A faulty loop: a secondary author that matches nobody is appended.
RECURSIVE enrich_authors_append(_, _)
enrich_authors_append(authors, ss_authors) ==
    IF ss_authors = <<>> THEN authors
    ELSE LET a == Head(ss_authors)
             i == find_author(authors, unwrap_or(a.name, ""))
         IN  enrich_authors_append(
                 IF i = 0 THEN Append(authors, Author_from_ss_author(a))
                 ELSE [authors EXCEPT ![i] = enrich_author(@, a)],
                 Tail(ss_authors))

\* `for ss_author in ss_authors`: each secondary author in turn
RECURSIVE enrich_authors(_, _)
enrich_authors(authors, ss_authors) ==
    IF ss_authors = <<>> THEN authors
    ELSE LET a == Head(ss_authors)
             i == find_author(authors, unwrap_or(a.name, ""))
         IN  enrich_authors(
                 IF i = 0 THEN authors
                 ELSE [authors EXCEPT ![i] = enrich_author(@, a)],
                 Tail(ss_authors))

\* A faulty enrichment: the counts are taken only when the secondary has them.
enrich_counts_keep(self, raw) ==
    [self EXCEPT
        !.ss_id = unwrap_or(raw.paper_id, @),
        !.citations_count = unwrap_or(raw.citation_count, @),
        !.references_count = unwrap_or(raw.reference_count, @),
        !.influential_citation_count = unwrap_or(raw.influential_citation_count, @)]

\* enrich_from_semantic_scholar, the unconditional overwrites
enrich_counts(self, raw) ==
    [self EXCEPT
        !.ss_id = unwrap_or(raw.paper_id, ""),
        !.citations_count = unwrap_or(raw.citation_count, 0),
        !.references_count = unwrap_or(raw.reference_count, 0),
        !.influential_citation_count = unwrap_or(raw.influential_citation_count, 0)]

\* enrich_from_semantic_scholar, bibtex and open-access information
enrich_fill(self, raw) ==
    [self EXCEPT
        !.bibtex = IF @ = "" /\ raw.citation_styles # None
                             /\ raw.citation_styles[1].bibtex # None
                   THEN raw.citation_styles[1].bibtex[1] ELSE @,
        !.is_open_access = IF raw.open_access_pdf # None THEN TRUE ELSE @,
        !.open_access_pdf_url = IF raw.open_access_pdf # None
                                THEN raw.open_access_pdf[1].url ELSE @]

enrich_from_semantic_scholar(self, raw, t) ==
    LET counted == enrich_counts([self EXCEPT !.ss_paper = Some(raw)], raw)
        authored == [counted EXCEPT
                        !.authors = IF raw.authors = None THEN @
                                    ELSE enrich_authors(@, raw.authors[1])]
    IN  [enrich_fill(authored, raw) EXCEPT !.updated_at = t]

\* A faulty accessor: the field is returned without the emptiness test.
ss_id_unchecked(self) == [ok |-> TRUE, value |-> self.ss_id, err |-> NoError]

\* AcademicPaper::ss_id
ss_id(self) ==
    IF self.ss_id # "" THEN [ok |-> TRUE, value |-> self.ss_id, err |-> NoError]
    ELSE IF self.ss_paper # None
    THEN IF self.ss_paper[1].paper_id # None
         THEN [ok |-> TRUE, value |-> self.ss_paper[1].paper_id[1], err |-> NoError]
         ELSE [ok |-> FALSE, value |-> "",
               err |-> AppError("InternalAppError",
                                "Semantic Scholar paper ID is not available.")]
    ELSE [ok |-> FALSE, value |-> "",
          err |-> AppError("InternalAppError",
                           "Semantic Scholar paper data is not available.")]

\* PaperAnalysis and PaperText, as far as is_complete and is_valid tell them apart
Analyses == {[complete |-> TRUE], [complete |-> FALSE]}
Texts == {[valid |-> TRUE], [valid |-> FALSE]}

is_analyzed(self) == self.analysis # None /\ self.analysis[1].complete
has_extracted_text(self) == self.extracted_text # None /\ self.extracted_text[1].valid

\* A faulty setter: the analysis is attached and updated_at left alone.
set_analysis_no_touch(self, analysis, t) == [self EXCEPT !.analysis = Some(analysis)]

set_analysis(self, analysis, t) ==
    [self EXCEPT !.analysis = Some(analysis), !.updated_at = t]

set_extracted_text(self, text, t) ==
    [self EXCEPT !.extracted_text = Some(text), !.updated_at = t]

\* A paper is constructed at time 1; then mutating calls, each reading the clock,
\* which does not run backwards.
NoCall == [name |-> "new", arg |-> None, n |-> 0]

InitPaper ==
    /\ op = "paper" /\ params = SearchParamsNew /\ threshold = <<0, 1>>
    /\ IdleSearch /\ IdleFn /\ IdleExport
    /\ now = 1
    /\ \/ \E raw \in ArxivPapers : the_paper = AcademicPaper_from_arxiv(raw, now)
       \/ \E raw \in SsPapers : the_paper = AcademicPaper_from_semantic_scholar(raw, now)
    /\ original = the_paper
    /\ before = the_paper
    /\ call = NoCall

Mutate(name, arg, after) ==
    /\ op = "paper" /\ call.n < MaxOps
    /\ before' = the_paper
    /\ the_paper' = after
    /\ call' = [name |-> name, arg |-> Some(arg), n |-> call.n + 1]
    /\ UNCHANGED <<op, params, threshold, pc, pcA, pcS, arxiv_result, ss_result,
                   order, net, result, matched, input, output, original, exportVars>>

Enrich ==
    \E raw \in SsPapers, t \in now..MaxTime :
        /\ now' = t
        /\ Mutate("enrich_from_semantic_scholar", raw,
                  enrich_from_semantic_scholar(the_paper, raw, t))

SetAnalysis ==
    \E analysis \in Analyses, t \in now..MaxTime :
        /\ now' = t
        /\ Mutate("set_analysis", analysis, set_analysis(the_paper, analysis, t))

SetExtractedText ==
    \E text \in Texts, t \in now..MaxTime :
        /\ now' = t
        /\ Mutate("set_extracted_text", text, set_extracted_text(the_paper, text, t))

NextPaper == Enrich \/ SetAnalysis \/ SetExtractedText

SpecPaper == InitPaper /\ [][NextPaper]_vars

(***************************************************************************)
(* Claims about the Paper Record, checked under SpecPaper.                 *)
(***************************************************************************)
Enriched == call.name = "enrich_from_semantic_scholar"

\* the author names of a record, in order
Names(authors) == [i \in 1..Len(authors) |-> authors[i].name]

\* what the secondary record gives for an optional value: the value, or the default
GivenOr(o, d) == IF o = None THEN d ELSE o[1]

C12_FillIfEmpty ==
    Enriched =>
        /\ before.bibtex # "" => the_paper.bibtex = before.bibtex
        /\ before.open_access_pdf_url # None =>
               the_paper.open_access_pdf_url = before.open_access_pdf_url

\* C13: after any number of enrichments the record has the authors it was
\* constructed with: same length, same names, same order; a secondary author
\* that matches nobody is not appended.
C13_AuthorMembershipKept ==
    /\ Len(the_paper.authors) = Len(original.authors)
    /\ Names(the_paper.authors) = Names(original.authors)

\* a second enrichment whose secondary record names an author the record does
\* not have, and one it has, whose fields it changed
C13_Witness ==
    /\ Enriched /\ call.n = 2 /\ before # original
    /\ call.arg[1].authors = Some(<<SsCy, SsAnn>>)
    /\ Names(the_paper.authors) = <<"Bob", "Ann">>
    /\ the_paper.authors[2].ss_id = "A1"
    /\ the_paper.authors # before.authors

\* the secondary authors of the latest enrichment
LastSsAuthors ==
    IF call.arg[1].authors = None THEN <<>> ELSE call.arg[1].authors[1]

\* the positions of the secondary authors named `name`
Matching(name) ==
    {k \in 1..Len(LastSsAuthors) : GivenOr(LastSsAuthors[k].name, "") = name}

\* the last of a non-empty set of positions
Last(S) == CHOOSE k \in S : \A j \in S : j <= k

\* C14: after enrichment, the first primary author of each name that a
\* secondary author carries has that secondary author's id, h-index,
\* affiliations, paper count and citation count (those of the last such
\* secondary author); a primary author no secondary author names is unchanged.
C14_MatchedAuthorsOverwritten ==
    Enriched =>
        \A i \in 1..Len(before.authors) :
            LET name == before.authors[i].name
                M == Matching(name)
            IN  /\ M = {} => the_paper.authors[i] = before.authors[i]
                /\ (M # {} /\ find_author(before.authors, name) = i) =>
                       LET a == LastSsAuthors[Last(M)]
                       IN  /\ the_paper.authors[i].ss_id = GivenOr(a.author_id, "")
                           /\ the_paper.authors[i].h_index = GivenOr(a.hindex, 0)
                           /\ the_paper.authors[i].affiliations
                                  = GivenOr(a.affiliations, <<>>)
                           /\ the_paper.authors[i].paper_count
                                  = GivenOr(a.paper_count, 0)
                           /\ the_paper.authors[i].citation_count
                                  = GivenOr(a.citation_count, 0)

\* C15: every mutating call leaves updated_at at the time it read, created_at
\* is the construction time for ever, and updated_at >= created_at (the clock
\* of the model does not run backwards).
C15_Timestamps ==
    /\ the_paper.created_at = original.created_at
    /\ the_paper.updated_at >= the_paper.created_at
    /\ call.name # "new" => the_paper.updated_at = now

\* set_analysis with the analysis the record already has: updated_at alone moves
C15_Witness ==
    /\ call.name = "set_analysis"
    /\ before.analysis = the_paper.analysis
    /\ [the_paper EXCEPT !.updated_at = before.updated_at] = before
    /\ the_paper.updated_at > before.updated_at

(***************************************************************************)
(* cmd_export: the target paper is resolved, then text extraction, LLM     *)
(* analysis, the citations and references fetches (two futures of one      *)
(* tokio::join!), keyword extraction, and the output of the record.        *)
(***************************************************************************)
MaxCount == 2
MaxEdges == 2

\* anyhow::Result<Option<T>>
OkOpt(v) == [ok |-> TRUE, value |-> v, err |-> NoError]
ErrOpt(err) == [ok |-> FALSE, value |-> None, err |-> err]

\* the provider selected by --provider / LLM_PROVIDER and whether its API key is set
ProviderEnvs ==
    {[provider |-> "openai", api_key |-> TRUE],
     [provider |-> "openai", api_key |-> FALSE],
     [provider |-> "ollama", api_key |-> FALSE]}

\* OpenAiProvider::from_env needs OPENAI_API_KEY; OllamaProvider::from_env needs nothing
from_env_ok(env) == env.provider = "ollama" \/ env.api_key

ExportArgs ==
    [selector : BOOLEAN, analyze : BOOLEAN, extract_text : BOOLEAN,
     include_citations : BOOLEAN, include_references : BOOLEAN,
     extract_keywords : BOOLEAN, max_citations : 0..MaxCount, env : ProviderEnvs]

\* the papers the resolution step can return
SsPaperNoId == [SsPaperBase EXCEPT !.paper_id = None]
Targets ==
    {AcademicPaper_from_arxiv([title |-> "T1", doi |-> "10.1/x", authors |-> <<"Ann">>], 1),
     AcademicPaper_from_semantic_scholar(SsPaperBase, 1),
     AcademicPaper_from_semantic_scholar(SsPaperNoId, 1),
     set_extracted_text(
         enrich_from_semantic_scholar(
             AcademicPaper_from_arxiv([title |-> "T1", doi |-> "10.1/x",
                                       authors |-> <<"Ann">>], 1),
             SsPaperBase, 1),
         [valid |-> TRUE], 1)}

\* the edges of the citation graph: ss_tools ResponseData with its two optional papers
SsP1 == [SsPaperBase EXCEPT !.paper_id = Some("P1"), !.title = Some("P1"),
                            !.citation_count = Some(7)]
SsP2 == [SsPaperBase EXCEPT !.paper_id = Some("P2"), !.title = Some("P2"),
                            !.citation_count = Some(0)]
Edge(citing, cited) == [citing_paper |-> citing, cited_paper |-> cited]
\* a citation edge carries its citing paper; a reference edge carries its cited
\* paper, and the citing paper too if the provider fills it in
CitationEdgePool == {Edge(Some(SsP1), None), Edge(Some(SsP2), None)}
ReferenceEdgePool == {Edge(None, Some(SsP1)), Edge(Some(SsP2), Some(SsP1))}
CitationEdgeLists == SeqsUpTo(CitationEdgePool, MaxEdges)
ReferenceEdgeLists == SeqsUpTo(ReferenceEdgePool, MaxEdges)

ExportOptions_new(a) ==
    [analyzed |-> a.analyze, text_extracted |-> a.extract_text,
     citations_included |-> a.include_citations,
     references_included |-> a.include_references,
     keywords_extracted |-> a.extract_keywords,
     max_citations |-> a.max_citations, llm_provider |-> None]

ExportedPaper_new(p, options, t) ==
    [exported_at |-> t, options |-> options, warnings |-> <<>>, paper |-> p,
     citations |-> None, references |-> None,
     keywords |-> None, research_context |-> None]

\* exported.add_warning(format!("<step> failed: {}", e))
add_warning(exp, step, err) ==
    [exp EXCEPT !.warnings = Append(@, [step |-> step, err |-> err])]

PaperSummary_from_academic_paper(p) ==
    [ss_id |-> p.ss_id, doi |-> p.doi, title |-> p.title,
     authors |-> [i \in 1..Len(p.authors) |-> p.authors[i].name],
     citation_count |-> p.citations_count,
     influential_citation_count |-> p.influential_citation_count]

\* Iterator::take
take(s, n) == SubSeq(s, 1, Min2(Len(s), n))

\* SemanticScholarClient::fetch_citations: filter_map(|rd| rd.citing_paper)
RECURSIVE ss_fetch_citations(_)
ss_fetch_citations(data) ==
    IF data = <<>> THEN <<>>
    ELSE (IF Head(data).citing_paper # None THEN <<Head(data).citing_paper[1]>> ELSE <<>>)
             \o ss_fetch_citations(Tail(data))

\* SemanticScholarClient::fetch_references: filter_map(|rd| rd.citing_paper) as well
RECURSIVE ss_fetch_references(_)
ss_fetch_references(data) ==
    IF data = <<>> THEN <<>>
    ELSE (IF Head(data).citing_paper # None THEN <<Head(data).citing_paper[1]>> ELSE <<>>)
             \o ss_fetch_references(Tail(data))

\* PaperClient::fetch_citations / fetch_references after the provider answered
client_map(ss_papers, t) ==
    [i \in 1..Len(ss_papers) |-> AcademicPaper_from_semantic_scholar(ss_papers[i], t)]

\* A faulty block: total_count counts the fetched summaries.
CitationData_total_fetched(total, summaries) ==
    [total_count |-> Len(summaries), fetched_count |-> Len(summaries),
     papers |-> summaries]

\* CitationData { total_count, fetched_count, papers }, ReferenceData alike
CitationData(total, summaries) ==
    [total_count |-> total, fetched_count |-> Len(summaries), papers |-> summaries]

\* main.rs fetch_citations / fetch_references once the client returned its papers
limit_and_summarize(total, papers, max_citations) ==
    LET limited == take(papers, max_citations)
    IN  IF limited = <<>> THEN OkOpt(None)
        ELSE OkOpt(Some(CitationData(total,
                 [i \in 1..Len(limited) |-> PaperSummary_from_academic_paper(limited[i])])))

fetch_citations(p, data, max_citations, t) ==
    limit_and_summarize(p.citations_count, client_map(ss_fetch_citations(data), t),
                        max_citations)

fetch_references(p, data, max_citations, t) ==
    limit_and_summarize(p.references_count, client_map(ss_fetch_references(data), t),
                        max_citations)

handle_citations(exp, res) ==
    IF res.ok THEN (IF res.value # None THEN [exp EXCEPT !.citations = res.value] ELSE exp)
    ELSE add_warning(exp, "Citations fetch failed", res.err)

\* A faulty handler: references are dropped once a warning has been recorded.
handle_references_unless_warned(exp, res) ==
    IF exp.warnings # <<>> THEN exp
    ELSE IF res.ok
         THEN (IF res.value # None THEN [exp EXCEPT !.references = res.value] ELSE exp)
         ELSE add_warning(exp, "References fetch failed", res.err)

handle_references(exp, res) ==
    IF res.ok THEN (IF res.value # None THEN [exp EXCEPT !.references = res.value] ELSE exp)
    ELSE add_warning(exp, "References fetch failed", res.err)

InitExport ==
    /\ op = "export" /\ params = SearchParamsNew /\ threshold = <<0, 1>>
    /\ IdleSearch /\ IdleFn
    /\ the_paper = None /\ now = 1 /\ original = None /\ before = None /\ call = None
    /\ args \in ExportArgs
    /\ export_options = ExportOptions_new(args)
    /\ xpc = "start" /\ pcC = "idle" /\ pcR = "idle"
    /\ citations_result = None /\ references_result = None
    /\ calls = <<>> /\ llm_calls = <<>> /\ exported = None /\ outcome = None

\* what the keyword step leaves alone, and what every other step does
keywordFrame ==
    UNCHANGED <<op, params, threshold, pc, pcA, pcS, arxiv_result, ss_result,
                order, net, result, matched, input, output, now, original, before,
                call, args>>

exportFrame == keywordFrame /\ UNCHANGED llm_calls

Abort(err) == outcome' = Some(ErrOpt(err)) /\ xpc' = "done"

\* none of --arxiv, --ss, --title: anyhow::bail!
ExportNoSelector ==
    /\ xpc = "start" /\ ~args.selector
    /\ Abort(AppError("anyhow", "Either --arxiv, --ss, or --title is required"))
    /\ UNCHANGED <<the_paper, export_options, pcC, pcR, citations_result,
                   references_result, calls, exported>>
    /\ exportFrame

\* the paper is resolved by search_by_title_fuzzy or search; ExportedPaper::new
ExportResolve ==
    /\ xpc = "start" /\ args.selector
    /\ \/ /\ Abort(AppError("PaperNotFound", "Paper not found"))
          /\ UNCHANGED <<the_paper, exported>>
       \/ \E p \in Targets :
             /\ the_paper' = p
             /\ exported' = Some(ExportedPaper_new(p, export_options, now))
             /\ xpc' = "extract_text"
             /\ UNCHANGED outcome
    /\ UNCHANGED <<export_options, pcC, pcR, citations_result, references_result, calls>>
    /\ exportFrame

ExportExtractText ==
    /\ xpc = "extract_text"
    /\ IF args.extract_text /\ ~has_extracted_text(the_paper)
       THEN \/ \E text \in Texts :
                  /\ the_paper' = set_extracted_text(the_paper, text, now)
                  /\ UNCHANGED exported
            \/ /\ exported' = Some(add_warning(exported[1], "Text extraction failed",
                                      AppError("PdfError", "extraction failed")))
               /\ UNCHANGED the_paper
       ELSE UNCHANGED <<the_paper, exported>>
    /\ xpc' = "analyze"
    /\ UNCHANGED <<export_options, pcC, pcR, citations_result, references_result,
                   calls, outcome>>
    /\ exportFrame

ConfigError == AppError("ConfigError", "API key environment variable not set")

ExportAnalyze ==
    /\ xpc = "analyze"
    /\ IF args.analyze /\ ~is_analyzed(the_paper)
       THEN IF ~from_env_ok(args.env)
            THEN /\ Abort(ConfigError)
                 /\ UNCHANGED <<the_paper, exported, export_options>>
            ELSE /\ export_options' =
                        [export_options EXCEPT !.llm_provider = Some(args.env.provider)]
                 /\ \/ /\ the_paper' = set_analysis(the_paper, [complete |-> TRUE], now)
                       /\ UNCHANGED exported
                    \/ /\ exported' = Some(add_warning(exported[1], "LLM analysis failed",
                                              AppError("LlmError", "analysis failed")))
                       /\ UNCHANGED the_paper
                 /\ xpc' = "fetch"
                 /\ UNCHANGED outcome
       ELSE /\ xpc' = "fetch"
            /\ UNCHANGED <<the_paper, exported, export_options, outcome>>
    /\ UNCHANGED <<pcC, pcR, citations_result, references_result, calls>>
    /\ exportFrame

\* the two futures are built and handed to tokio::join!, or both results are Ok(None)
ExportFetchStart ==
    /\ xpc = "fetch"
    /\ IF args.include_citations \/ args.include_references
       THEN /\ xpc' = "join" /\ pcC' = "start" /\ pcR' = "start"
            /\ UNCHANGED <<citations_result, references_result>>
       ELSE /\ xpc' = "handle"
            /\ citations_result' = Some(OkOpt(None))
            /\ references_result' = Some(OkOpt(None))
            /\ UNCHANGED <<pcC, pcR>>
    /\ UNCHANGED <<the_paper, export_options, calls, exported, outcome>>
    /\ exportFrame

\* tokio::join! polls each future that has not completed
citations_future_runnable == xpc = "join" /\ pcC \in {"start", "net"}
references_future_runnable == xpc = "join" /\ pcR \in {"start", "net"}

Request(endpoint, id) == [endpoint |-> endpoint, paper_id |-> id, data |-> None]

\* citations_future up to its await on the provider
CitationsStart ==
    /\ citations_future_runnable /\ pcC = "start"
    /\ IF ~args.include_citations
       THEN /\ citations_result' = Some(OkOpt(None)) /\ pcC' = "done"
            /\ UNCHANGED calls
       ELSE IF ~ss_id(the_paper).ok
       THEN /\ citations_result' = Some(ErrOpt(ss_id(the_paper).err)) /\ pcC' = "done"
            /\ UNCHANGED calls
       ELSE /\ calls' = Append(calls, Request("citations", ss_id(the_paper).value))
            /\ pcC' = "net"
            /\ UNCHANGED citations_result
    /\ UNCHANGED <<the_paper, export_options, xpc, pcR, references_result, exported,
                   outcome>>
    /\ exportFrame

answer(cs, endpoint, data) ==
    [i \in 1..Len(cs) |-> IF cs[i].endpoint = endpoint
                          THEN [cs[i] EXCEPT !.data = Some(data)] ELSE cs[i]]

\* the provider answers the citations request
CitationsRespond ==
    /\ citations_future_runnable /\ pcC = "net"
    /\ \/ /\ citations_result' =
                 Some(ErrOpt(AppError("SemanticScholarError", "Fetch citations failed")))
          /\ UNCHANGED calls
       \/ \E data \in CitationEdgeLists :
             /\ citations_result' =
                    Some(fetch_citations(the_paper, data, args.max_citations, now))
             /\ calls' = answer(calls, "citations", data)
    /\ pcC' = "done"
    /\ UNCHANGED <<the_paper, export_options, xpc, pcR, references_result, exported,
                   outcome>>
    /\ exportFrame

\* references_future up to its await on the provider
ReferencesStart ==
    /\ references_future_runnable /\ pcR = "start"
    /\ IF ~args.include_references
       THEN /\ references_result' = Some(OkOpt(None)) /\ pcR' = "done"
            /\ UNCHANGED calls
       ELSE IF ~ss_id(the_paper).ok
       THEN /\ references_result' = Some(ErrOpt(ss_id(the_paper).err)) /\ pcR' = "done"
            /\ UNCHANGED calls
       ELSE /\ calls' = Append(calls, Request("references", ss_id(the_paper).value))
            /\ pcR' = "net"
            /\ UNCHANGED references_result
    /\ UNCHANGED <<the_paper, export_options, xpc, pcC, citations_result, exported,
                   outcome>>
    /\ exportFrame

\* the provider answers the references request
ReferencesRespond ==
    /\ references_future_runnable /\ pcR = "net"
    /\ \/ /\ references_result' =
                 Some(ErrOpt(AppError("SemanticScholarError", "Fetch references failed")))
          /\ UNCHANGED calls
       \/ \E data \in ReferenceEdgeLists :
             /\ references_result' =
                    Some(fetch_references(the_paper, data, args.max_citations, now))
             /\ calls' = answer(calls, "references", data)
    /\ pcR' = "done"
    /\ UNCHANGED <<the_paper, export_options, xpc, pcC, citations_result, exported,
                   outcome>>
    /\ exportFrame

\* after tokio::join!: the citations result is handled, then the references result
ExportHandle ==
    /\ \/ xpc = "join" /\ pcC = "done" /\ pcR = "done"
       \/ xpc = "handle"
    /\ exported' = Some(handle_references(handle_citations(exported[1],
                                                           citations_result[1]),
                                          references_result[1]))
    /\ xpc' = "keywords"
    /\ UNCHANGED <<the_paper, export_options, pcC, pcR, citations_result,
                   references_result, calls, outcome>>
    /\ exportFrame

\* what PaperAnalyzer::extract_keywords can answer
KeywordSets == {<<"k1">>, <<"k1", "k2">>}
LlmError(msg) == AppError("LlmError", msg)
LlmRequest(name, keywords, reply) ==
    [call |-> name, keywords |-> keywords, answer |-> reply]

\* A faulty handling: the keywords are kept when the context call fails.
keywords_handled_keeping(exp, keywords, context) ==
    IF context.ok
    THEN [exp EXCEPT !.keywords = Some(keywords), !.research_context = context.value]
    ELSE [add_warning(exp, "Keyword extraction failed", context.err)
              EXCEPT !.keywords = Some(keywords)]

\* match keywords_result, once both calls were made: Ok((keywords, context)) sets
\* both fields, Err(e) adds the warning
keywords_handled(exp, keywords, context) ==
    IF context.ok
    THEN [exp EXCEPT !.keywords = Some(keywords), !.research_context = context.value]
    ELSE add_warning(exp, "Keyword extraction failed", context.err)

\* the keyword step up to the answer of analyzer.extract_keywords(paper): a failed
\* from_env leaves cmd_export, a failed call is the Err of
\* extract_keywords_with_provider
ExportKeywords ==
    /\ xpc = "keywords"
    /\ IF args.extract_keywords
       THEN IF ~from_env_ok(args.env)
            THEN /\ Abort(ConfigError)
                 /\ UNCHANGED <<exported, llm_calls>>
            ELSE /\ \E reply \in {ErrOpt(LlmError("keywords failed"))}
                                      \cup {OkOpt(Some(k)) : k \in KeywordSets} :
                       /\ llm_calls' =
                              Append(llm_calls, LlmRequest("extract_keywords", None, reply))
                       /\ IF reply.ok
                          THEN xpc' = "context" /\ UNCHANGED exported
                          ELSE /\ exported' =
                                      Some(add_warning(exported[1],
                                               "Keyword extraction failed", reply.err))
                               /\ xpc' = "write"
                 /\ UNCHANGED outcome
       ELSE /\ xpc' = "write"
            /\ UNCHANGED <<exported, outcome, llm_calls>>
    /\ UNCHANGED <<the_paper, export_options, pcC, pcR, citations_result,
                   references_result, calls>>
    /\ keywordFrame

\* analyzer.extract_research_context(paper, &keywords.keywords) and the match on
\* keywords_result
ExportContext ==
    /\ xpc = "context"
    /\ LET keywords == llm_calls[Len(llm_calls)].answer.value[1]
       IN  \E reply \in {ErrOpt(LlmError("context failed")), OkOpt(Some("context"))} :
               /\ llm_calls' = Append(llm_calls,
                                   LlmRequest("extract_research_context", Some(keywords), reply))
               /\ exported' = Some(keywords_handled(exported[1], keywords, reply))
    /\ xpc' = "write"
    /\ UNCHANGED <<the_paper, export_options, pcC, pcR, citations_result,
                   references_result, calls, outcome>>
    /\ keywordFrame

\* exported.paper and the options are updated, the record is serialized and written
ExportWrite ==
    /\ xpc = "write"
    /\ exported' = Some([exported[1] EXCEPT !.paper = the_paper,
                                            !.options = export_options])
    /\ \/ outcome' = Some(OkOpt(exported'))
       \/ outcome' = Some(ErrOpt(AppError("Io", "std::fs::write failed")))
    /\ xpc' = "done"
    /\ UNCHANGED <<the_paper, export_options, pcC, pcR, citations_result,
                   references_result, calls>>
    /\ exportFrame

NextExport ==
    \/ ExportNoSelector
    \/ ExportResolve
    \/ ExportExtractText
    \/ ExportAnalyze
    \/ ExportFetchStart
    \/ CitationsStart
    \/ CitationsRespond
    \/ ReferencesStart
    \/ ReferencesRespond
    \/ ExportHandle
    \/ ExportKeywords
    \/ ExportContext
    \/ ExportWrite

SpecExport == InitExport /\ [][NextExport]_vars

(***************************************************************************)
(* Claims about cmd_export, checked under SpecExport.                      *)
(***************************************************************************)
\* the warnings of the record that name `step`
WarningsOf(step) ==
    {i \in 1..Len(exported[1].warnings) : exported[1].warnings[i].step = step}

\* both results of the join have been handled
Handled ==
    /\ exported # None /\ xpc \in {"keywords", "context", "write", "done"}
    /\ citations_result # None /\ references_result # None

\* C16: once the target paper is resolved cmd_export ends with the export
\* record: a failing optional step (text extraction, LLM analysis with the
\* obtaining of its provider, either fetch, keyword extraction) is a warning,
\* never the failure of the export (an error of the final write aside).
C16_ExportAlwaysProduced ==
    (xpc = "done" /\ exported # None) =>
        (outcome[1].ok \/ outcome[1].err.kind = "Io")

\* C17: the two fetches are polled together and nothing of their results is
\* handled before both are done; once handled, a failed fetch has left exactly
\* one warning naming it, with its error, and no block, and a successful fetch
\* has left its value as the block and no warning, whatever the other did.
C17_FetchesJoinedThenHandled ==
    /\ (xpc = "join" /\ pcC # "done") => citations_future_runnable
    /\ (xpc = "join" /\ pcR # "done") => references_future_runnable
    /\ xpc = "join" =>
           /\ exported[1].citations = None /\ exported[1].references = None
           /\ WarningsOf("Citations fetch failed") = {}
           /\ WarningsOf("References fetch failed") = {}
    /\ Handled =>
           LET c == citations_result[1]
               r == references_result[1]
               e == exported[1]
           IN  /\ c.ok => e.citations = c.value /\ WarningsOf("Citations fetch failed") = {}
               /\ ~c.ok =>
                      /\ e.citations = None
                      /\ Cardinality(WarningsOf("Citations fetch failed")) = 1
                      /\ \A i \in WarningsOf("Citations fetch failed") :
                             e.warnings[i].err = c.err
               /\ r.ok => e.references = r.value /\ WarningsOf("References fetch failed") = {}
               /\ ~r.ok =>
                      /\ e.references = None
                      /\ Cardinality(WarningsOf("References fetch failed")) = 1
                      /\ \A i \in WarningsOf("References fetch failed") :
                             e.warnings[i].err = r.err

\* both requests were issued, the citations fetch failed at the provider and the
\* references fetch succeeded: its block is attached beside the one warning
C17_Witness ==
    /\ Handled
    /\ ~citations_result[1].ok /\ references_result[1].ok
    /\ Len(calls) = 2 /\ calls[1].endpoint = "citations"
    /\ exported[1].references # None /\ exported[1].citations = None
    /\ Cardinality(WarningsOf("Citations fetch failed")) = 1
    /\ WarningsOf("References fetch failed") = {}

\* the record exposes no Semantic Scholar identifier
NoSsId(p) == p.ss_id = "" /\ (p.ss_paper = None \/ p.ss_paper[1].paper_id = None)

IdUnavailable(res) ==
    /\ ~res.ok /\ res.err.kind = "InternalAppError"
    /\ res.err.msg \in {"Semantic Scholar paper ID is not available.",
                        "Semantic Scholar paper data is not available."}

\* C18: on a record without a Semantic Scholar identifier a requested fetch of
\* citations or references fails with the identifier-unavailable error and no
\* request reaches the citation-graph provider; cmd_export records a warning
\* for it and goes on, and never returns that error.
C18_NoIdentifierIsAWarning ==
    (the_paper # None /\ NoSsId(the_paper)) =>
        /\ calls = <<>>
        /\ (pcC = "done" /\ args.include_citations) => IdUnavailable(citations_result[1])
        /\ (pcR = "done" /\ args.include_references) => IdUnavailable(references_result[1])
        /\ Handled =>
               /\ args.include_citations =>
                      Cardinality(WarningsOf("Citations fetch failed")) = 1
               /\ args.include_references =>
                      Cardinality(WarningsOf("References fetch failed")) = 1
        /\ (xpc = "done" /\ ~outcome[1].ok) => outcome[1].err.kind # "InternalAppError"

\* an export of a record without identifier, both fetches requested, that ended
\* with the record and the two warnings
C18_Witness ==
    /\ xpc = "done" /\ outcome[1].ok
    /\ NoSsId(the_paper)
    /\ args.include_citations /\ args.include_references
    /\ calls = <<>>
    /\ WarningsOf("Citations fetch failed") # {}
    /\ WarningsOf("References fetch failed") # {}

\* the paper an edge stands for: the citing paper of a citation edge, the cited
\* paper of a reference edge
EdgePaper(edge, endpoint) ==
    IF endpoint = "citations" THEN edge.citing_paper ELSE edge.cited_paper

ResultOf(endpoint) ==
    IF endpoint = "citations" THEN citations_result[1] ELSE references_result[1]

SummaryOfEdge(edge, endpoint) ==
    PaperSummary_from_academic_paper(
        AcademicPaper_from_semantic_scholar(EdgePaper(edge, endpoint)[1], now))

\* C19: for a provider edge list of length n, each edge carrying its paper, the
\* fetch returns the absent sentinel iff min(n, max_citations) = 0, and
\* otherwise the summaries of the first min(n, max_citations) edges in provider
\* order, fetched_count being their number.
C19_PrefixOfEdges ==
    \A i \in 1..Len(calls) :
        LET c == calls[i]
        IN  (c.data # None /\ \A k \in 1..Len(c.data[1]) :
                                  EdgePaper(c.data[1][k], c.endpoint) # None) =>
                LET data == c.data[1]
                    m == IF Len(data) < args.max_citations THEN Len(data)
                         ELSE args.max_citations
                    res == ResultOf(c.endpoint)
                IN  /\ res.ok
                    /\ (res.value = None) <=> (m = 0)
                    /\ res.value # None =>
                           /\ res.value[1].papers =
                                  [k \in 1..m |-> SummaryOfEdge(data[k], c.endpoint)]
                           /\ res.value[1].fetched_count = Len(res.value[1].papers)
                           /\ res.value[1].fetched_count <= args.max_citations
                           /\ res.value[1].papers # <<>>

\* C20: in every CitationData (ReferenceData) of the export total_count is the
\* target paper's own citations_count (references_count), whatever the number
\* of edges returned and whatever max_citations.
C20_TotalCountIsOwnCounter ==
    /\ (citations_result # None /\ citations_result[1].value # None) =>
           citations_result[1].value[1].total_count = the_paper.citations_count
    /\ (references_result # None /\ references_result[1].value # None) =>
           references_result[1].value[1].total_count = the_paper.references_count
    /\ (exported # None /\ exported[1].citations # None) =>
           exported[1].citations[1].total_count = the_paper.citations_count
    /\ (exported # None /\ exported[1].references # None) =>
           exported[1].references[1].total_count = the_paper.references_count

\* two citation edges returned for a paper whose counter is 3, max_citations 1:
\* one summary fetched, total_count 3
C20_Witness ==
    /\ exported # None /\ exported[1].citations # None
    /\ args.max_citations = 1
    /\ \E i \in 1..Len(calls) :
           /\ calls[i].endpoint = "citations" /\ calls[i].data # None
           /\ Len(calls[i].data[1]) = 2
    /\ the_paper.citations_count = 3
    /\ exported[1].citations[1].fetched_count = 1
    /\ exported[1].citations[1].total_count = 3

(***************************************************************************)
(* The statistics over a list of PaperSummary (CitationStatistics and      *)
(* ReferenceStatistics ::from_papers).  A HashMap is a function on its     *)
(* keys; the order in which it is iterated is that of the hashes of the    *)
(* keys under the RandomState the map was created with.                    *)
(***************************************************************************)
MaxVenues == 11
MaxYears == 4
MaxSummaries == 6
TopVenuesLimit == 10
MostInfluentialLimit == 5
HashMod == 13

Summary(title, year, venue, cites) ==
    [title |-> title, year |-> year, venue |-> venue, citation_count |-> cites]

\* *map.entry(key).or_insert(0) += 1
entry_add(map, key) ==
    IF key \in DOMAIN map THEN [map EXCEPT ![key] = @ + 1]
    ELSE [k \in DOMAIN map \cup {key} |-> IF k = key THEN 1 ELSE map[k]]

\* the loop of from_papers, as far as it fills `venues`
RECURSIVE count_venues(_, _)
count_venues(papers, venues) ==
    IF papers = <<>> THEN venues
    ELSE count_venues(Tail(papers),
                      IF Head(papers).venue # "" THEN entry_add(venues, Head(papers).venue)
                      ELSE venues)

\* A faulty loop: years <= 0 are counted as well.
RECURSIVE count_years_all(_, _)
count_years_all(papers, by_year) ==
    IF papers = <<>> THEN by_year
    ELSE count_years_all(Tail(papers), entry_add(by_year, Head(papers).year))

\* the loop of from_papers, as far as it fills `by_year`
RECURSIVE count_years(_, _)
count_years(papers, by_year) ==
    IF papers = <<>> THEN by_year
    ELSE count_years(Tail(papers),
                     IF Head(papers).year > 0 THEN entry_add(by_year, Head(papers).year)
                     ELSE by_year)

\* ReferenceStatistics::from_papers: min_year and max_year folded into year_range
RECURSIVE year_range_from(_, _)
year_range_from(papers, range) ==
    IF papers = <<>> THEN range
    ELSE LET y == Head(papers).year
         IN  year_range_from(Tail(papers),
                 IF y > 0
                 THEN (IF range = None THEN Some(<<y, y>>)
                       ELSE Some(<<Min2(range[1][1], y), Max2(range[1][2], y)>>))
                 ELSE range)

year_range(papers) == year_range_from(papers, None)

\* the names a venue can have, and the hash of a name under a RandomState
VenueNames == <<"A", "B", "C", "D", "E", "F", "G", "H", "I", "J", "K", "L">>
Seeds == [mul : {1, HashMod - 1}, add : 0..(HashMod - 1)]

index_of(name) == CHOOSE i \in 1..Len(VenueNames) : VenueNames[i] = name
hash(name, seed) == (index_of(name) * seed.mul + seed.add) % HashMod

\* HashMap::into_iter().collect(): the entries in the order of their hashes
RECURSIVE into_iter(_, _, _)
into_iter(map, keys, seed) ==
    IF keys = {} THEN <<>>
    ELSE LET k == CHOOSE k \in keys : \A j \in keys : hash(k, seed) <= hash(j, seed)
         IN  <<<<k, map[k]>>>> \o into_iter(map, keys \ {k}, seed)

\* one step of the stable sort: x goes behind every entry whose count is >= its own
RECURSIVE insert_by_count(_, _)
insert_by_count(sorted, x) ==
    IF sorted = <<>> THEN <<x>>
    ELSE IF Head(sorted)[2] >= x[2] THEN <<Head(sorted)>> \o insert_by_count(Tail(sorted), x)
    ELSE <<x>> \o sorted

RECURSIVE sort_fold(_, _)
sort_fold(sorted, rest) ==
    IF rest = <<>> THEN sorted
    ELSE sort_fold(insert_by_count(sorted, Head(rest)), Tail(rest))

\* A faulty sort: the entries stay as the map yielded them.
sort_by_count_skipped(vec) == vec

\* venue_vec.sort_by(|a, b| b.1.cmp(&a.1)): stable, larger counts first
sort_by_count_desc(vec) == sort_fold(<<>>, vec)

\* top_venues of from_papers, the maps of this run hashing under `seed`
top_venues(papers, seed) ==
    LET venues == count_venues(papers, <<>>)
        venue_vec == into_iter(venues, DOMAIN venues, seed)
    IN  take(sort_by_count_desc(venue_vec), TopVenuesLimit)

\* A faulty ranking: the papers are ranked in input order.
most_influential_unsorted(papers) ==
    LET titles == [i \in 1..Len(papers) |-> papers[i].title]
    IN  take(titles, MostInfluentialLimit)

\* sorted_papers.sort_by(|a, b| b.citation_count.cmp(&a.citation_count)), take(5), titles
most_influential(papers) ==
    LET keyed == [i \in 1..Len(papers) |-> <<papers[i].title, papers[i].citation_count>>]
        sorted_papers == sort_by_count_desc(keyed)
        titles == [i \in 1..Len(sorted_papers) |-> sorted_papers[i][1]]
    IN  take(titles, MostInfluentialLimit)

\* summary lists for top_venues: n venues once each, one of them possibly a second
\* time, possibly a summary without venue
VenueInputs ==
    {[i \in 1..n |-> Summary("P", 0, VenueNames[i], 0)]
         \o (IF twice = 0 THEN <<>> ELSE <<Summary("P", 0, VenueNames[twice], 0)>>)
         \o (IF blank THEN <<Summary("P", 0, "", 0)>> ELSE <<>>) :
        n \in 0..MaxVenues, twice \in 0..MaxVenues, blank \in BOOLEAN}

\* from_papers twice on the same list, each run with the RandomState it gets
InitVenues == InitPure("top_venues") /\ input \in {l \in VenueInputs : TRUE}

TopVenues ==
    /\ op = "top_venues" /\ Len(output) < 2
    /\ \E seed \in Seeds : output' = Append(output, top_venues(input, seed))
    /\ UNCHANGED <<op, params, threshold, pc, pcA, pcS, arxiv_result, ss_result,
                   order, net, result, matched, input>>
    /\ UNCHANGED <<paperVars, exportVars>>

NextVenues == TopVenues

SpecVenues == InitVenues /\ [][NextVenues]_vars

\* summary lists for by_year and year_range: the years, among them 0 and a negative one
YearPool == {-1, 0, 2020, 2021}
YearInputs ==
    {[i \in 1..Len(ys) |-> Summary("P", ys[i], "", 0)] : ys \in SeqsUpTo(YearPool, MaxYears)}

InitByYear == InitPure("by_year") /\ input \in {l \in YearInputs : TRUE}

ByYear ==
    /\ op = "by_year" /\ output = <<>>
    /\ output' = <<[by_year |-> count_years(input, <<>>), year_range |-> year_range(input)]>>
    /\ UNCHANGED <<op, params, threshold, pc, pcA, pcS, arxiv_result, ss_result,
                   order, net, result, matched, input>>
    /\ UNCHANGED <<paperVars, exportVars>>

NextByYear == ByYear

SpecByYear == InitByYear /\ [][NextByYear]_vars

\* summary lists for most_influential: the citation counts, the i-th paper titled TitleNames[i]
TitleNames == <<"P1", "P2", "P3", "P4", "P5", "P6", "P7">>
CitePool == 0..2
InfluentialInputs ==
    {[i \in 1..Len(cs) |-> Summary(TitleNames[i], 0, "", cs[i])] :
        cs \in SeqsUpTo(CitePool, MaxSummaries)}

InitInfluential == InitPure("most_influential") /\ input \in {l \in InfluentialInputs : TRUE}

MostInfluential ==
    /\ op = "most_influential" /\ output = <<>>
    /\ output' = <<most_influential(input)>>
    /\ UNCHANGED <<op, params, threshold, pc, pcA, pcS, arxiv_result, ss_result,
                   order, net, result, matched, input>>
    /\ UNCHANGED <<paperVars, exportVars>>

NextInfluential == MostInfluential

SpecInfluential == InitInfluential /\ [][NextInfluential]_vars

(***************************************************************************)
(* Claims about the statistics.                                            *)
(***************************************************************************)
\* the number of summaries of the input whose venue is v
Occurrences(v) == Cardinality({i \in 1..Len(input) : input[i].venue = v})
InputVenues == {input[i].venue : i \in 1..Len(input)} \ {""}
VenuesIn(tv) == {tv[i][1] : i \in 1..Len(tv)}

RankedVenues(tv) ==
    /\ Len(tv) <= TopVenuesLimit
    /\ \A i \in 1..Len(tv) :
           /\ tv[i][1] # ""
           /\ tv[i][2] = Occurrences(tv[i][1])
           /\ tv[i][2] >= 1
    /\ \A i, j \in 1..Len(tv) : i < j => (tv[i][2] >= tv[j][2] /\ tv[i][1] # tv[j][1])
    /\ Len(tv) = Min2(TopVenuesLimit, Cardinality(InputVenues))
    /\ \A v \in InputVenues \ VenuesIn(tv) :
           \A i \in 1..Len(tv) : Occurrences(v) <= tv[i][2]

\* C21: top_venues holds only non-empty venue names, each once and with the
\* number of summaries that carry it, in non-increasing order of count, at
\* most 10 of them, and no venue left out has a larger count than one kept.
C21_TopVenuesRanked ==
    op = "top_venues" => \A r \in 1..Len(output) : RankedVenues(output[r])

\* eleven venues and a summary without venue, the eleventh venue twice: ten
\* entries, the eleventh venue first with count 2, one venue left out
C21_Witness ==
    /\ op = "top_venues" /\ Len(output) >= 1
    /\ Cardinality(InputVenues) = 11
    /\ \E i \in 1..Len(input) : input[i].venue = ""
    /\ Occurrences(VenueNames[11]) = 2
    /\ Len(output[1]) = 10
    /\ output[1][1] = <<VenueNames[11], 2>>
    /\ InputVenues \ VenuesIn(output[1]) # {}

\* C22: two runs of from_papers on the same summary list yield the same
\* top_venues sequence, ties and the cut at ten included.
C22_TopVenuesDeterministic ==
    (op = "top_venues" /\ Len(output) = 2) => output[1] = output[2]

RECURSIVE SumOver(_, _)
SumOver(map, keys) ==
    IF keys = {} THEN 0
    ELSE LET k == CHOOSE k \in keys : TRUE IN map[k] + SumOver(map, keys \ {k})

PositiveYears == {input[i].year : i \in 1..Len(input)} \cap {y \in YearPool : y > 0}
WithYear(y) == {i \in 1..Len(input) : input[i].year = y}

\* C23: by_year has exactly the years > 0 of the list as keys, each with the
\* number of summaries of that year; no key is <= 0 and the values add up to
\* the number of summaries with a year > 0.
C23_ByYearCounts ==
    (op = "by_year" /\ output # <<>>) =>
        LET by_year == output[1].by_year
        IN  /\ DOMAIN by_year = PositiveYears
            /\ \A y \in DOMAIN by_year : y > 0 /\ by_year[y] = Cardinality(WithYear(y))
            /\ SumOver(by_year, DOMAIN by_year) =
                   Cardinality({i \in 1..Len(input) : input[i].year > 0})

\* years 2020, 0, 2021, 2020: {2020: 2, 2021: 1}
C23_Witness ==
    /\ op = "by_year" /\ output # <<>>
    /\ [i \in 1..Len(input) |-> input[i].year] = <<2020, 0, 2021, 2020>>
    /\ DOMAIN output[1].by_year = {2020, 2021}
    /\ output[1].by_year[2020] = 2
    /\ output[1].by_year[2021] = 1

PositionOf(title) == CHOOSE i \in 1..Len(TitleNames) : TitleNames[i] = title
CitesOf(title) == input[PositionOf(title)].citation_count

\* C24: most_influential has min(5, n) titles, those of the summaries with
\* the highest citation counts, in non-increasing order of count, the first
\* one with the maximum count, equal counts in input order.
C24_MostInfluentialRanked ==
    (op = "most_influential" /\ output # <<>>) =>
        LET r == output[1]
            n == Len(input)
            kept == {PositionOf(r[k]) : k \in 1..Len(r)}
        IN  /\ Len(r) = Min2(MostInfluentialLimit, n)
            /\ kept \subseteq 1..n
            /\ Cardinality(kept) = Len(r)
            /\ \A j, k \in 1..Len(r) : j < k =>
                   \/ CitesOf(r[j]) > CitesOf(r[k])
                   \/ CitesOf(r[j]) = CitesOf(r[k]) /\ PositionOf(r[j]) < PositionOf(r[k])
            /\ n > 0 => \A i \in 1..n : input[i].citation_count <= CitesOf(r[1])
            /\ \A i \in (1..n) \ kept : \A k \in kept :
                   \/ input[i].citation_count < input[k].citation_count
                   \/ input[i].citation_count = input[k].citation_count /\ k < i

\* counts 1, 2, 1, 0, 2, 1: the titles of papers 2, 5, 1, 3, 6
C24_Witness ==
    /\ op = "most_influential" /\ output # <<>>
    /\ [i \in 1..Len(input) |-> input[i].citation_count] = <<1, 2, 1, 0, 2, 1>>
    /\ output[1] = <<"P2", "P5", "P1", "P3", "P6">>

(***************************************************************************)
(* PaperSummary::from_academic_paper: the year and the abstract snippet.   *)
(* A date string is its format and the year it spells; a DateTime is its   *)
(* year (dates are taken away from the turn of a year, where the change of *)
(* time zone could move it).  A string is the sequence of the runs of its  *)
(* characters of equal UTF-8 width: <<[w |-> 1, n |-> 499], [w |-> 2,      *)
(* n |-> 1]>> is 499 ASCII characters followed by one two-byte character;  *)
(* runs are non-empty and neighbours differ in width.                      *)
(***************************************************************************)
MaxRuns == 2
SnippetLimit == 500
EpochYear == 1970

DateForms == {"rfc2822", "rfc3339", "ymd", "ymd_hms", "ymd_hms_zone", "other", "other_signed"}
DateYears == {2020, 2021}
ClockYears == {2026}
DateStr(form, year) == [form |-> form, year |-> year]
EmptyDate == DateStr("empty", 0)
DateStrs == {EmptyDate} \cup {DateStr(f, y) : f \in DateForms, y \in DateYears}

\* datetime_from_str: RFC 2822 and RFC 3339 are parsed as they are; to
\* YYYY-MM-DD and YYYY-MM-DD HH:MM:SS a zone is appended and they parse; any
\* other string not ending in a sign gets "+0000" appended and fails to parse
\* (also one that carried a zone already); one ending in a sign is rejected.
datetime_from_str(date_str) ==
    IF date_str.form = "empty" THEN EpochYear
    ELSE IF date_str.form \in {"rfc2822", "rfc3339"} THEN date_str.year
    ELSE IF date_str.form \in {"ymd", "ymd_hms"} THEN date_str.year
    ELSE EpochYear

\* from_arxiv: published_date
published_date_from_arxiv(published) == datetime_from_str(published)

\* from_semantic_scholar: published_date
published_date_from_semantic_scholar(publication_date, t) ==
    IF publication_date = None THEN t ELSE datetime_from_str(publication_date[1])

\* published_date.format("%Y").to_string(): the decimal digits of the year
format_year(y) == <<(y \div 1000) % 10, (y \div 100) % 10, (y \div 10) % 10, y % 10>>

\* str::parse::<i32>() of a digit string
RECURSIVE parse_digits(_, _)
parse_digits(digits, acc) ==
    IF digits = <<>> THEN acc ELSE parse_digits(Tail(digits), acc * 10 + Head(digits))

parse_i32(digits) == IF digits = <<>> THEN None ELSE Some(parse_digits(digits, 0))

\* year: paper.published_date.format("%Y").to_string().parse().unwrap_or(0)
summary_year(published_date) == unwrap_or(parse_i32(format_year(published_date)), 0)

Run(w, n) == [w |-> w, n |-> n]
Widths == 1..3
RunLengths == {1, 250, 499, 500, 501}

RECURSIVE canonical(_)
canonical(s) ==
    IF Len(s) <= 1 THEN TRUE ELSE s[1].w # s[2].w /\ canonical(Tail(s))

Abstracts ==
    {s \in SeqsUpTo([w : Widths, n : RunLengths], MaxRuns) : canonical(s)}

\* str::len(): the length in bytes
RECURSIVE byte_len(_)
byte_len(s) == IF s = <<>> THEN 0 ELSE Head(s).w * Head(s).n + byte_len(Tail(s))

\* str::is_char_boundary(b), for b <= len
RECURSIVE is_char_boundary(_, _)
is_char_boundary(s, b) ==
    IF s = <<>> THEN b = 0
    ELSE IF b <= Head(s).w * Head(s).n THEN b % Head(s).w = 0
    ELSE is_char_boundary(Tail(s), b - Head(s).w * Head(s).n)

\* &s[..b] for a char boundary b <= len
RECURSIVE slice_to(_, _)
slice_to(s, b) ==
    IF b = 0 \/ s = <<>> THEN <<>>
    ELSE IF b >= Head(s).w * Head(s).n
         THEN <<Head(s)>> \o slice_to(Tail(s), b - Head(s).w * Head(s).n)
    ELSE <<Run(Head(s).w, b \div Head(s).w)>>

Snippet(text, ellipsis) == [panicked |-> FALSE, text |-> text, ellipsis |-> ellipsis]
Panic == [panicked |-> TRUE, text |-> <<>>, ellipsis |-> FALSE]

\* A snippet cut by characters: the first 500 of them.
RECURSIVE chars_to(_, _)
chars_to(s, k) ==
    IF k = 0 \/ s = <<>> THEN <<>>
    ELSE IF k >= Head(s).n THEN <<Head(s)>> \o chars_to(Tail(s), k - Head(s).n)
    ELSE <<Run(Head(s).w, k)>>

RECURSIVE char_count(_)
char_count(s) == IF s = <<>> THEN 0 ELSE Head(s).n + char_count(Tail(s))

abstract_snippet_by_chars(abstract_text) ==
    IF char_count(abstract_text) > SnippetLimit
    THEN Snippet(chars_to(abstract_text, SnippetLimit), TRUE)
    ELSE Snippet(abstract_text, FALSE)

\* abstract_snippet of from_academic_paper: format!("{}...", &abstract_text[..500])
\* when len() > 500; the slice panics when byte 500 is inside a character
abstract_snippet(abstract_text) ==
    IF byte_len(abstract_text) > SnippetLimit
    THEN (IF is_char_boundary(abstract_text, SnippetLimit)
          THEN Snippet(slice_to(abstract_text, SnippetLimit), TRUE)
          ELSE Panic)
    ELSE Snippet(abstract_text, FALSE)

\* the raw records: where they come from, their date and their abstract
RawDated ==
    [source : {"arxiv"}, published : DateStrs, abstract_text : Abstracts]
    \cup [source : {"ss"}, published : {None} \cup {Some(d) : d \in DateStrs},
          abstract_text : Abstracts]

InitSummary ==
    /\ InitPure("summary")
    /\ \E raw \in RawDated, t \in ClockYears : input = [raw |-> raw, now |-> t]

\* AcademicPaper::from_arxiv / from_semantic_scholar, as far as the date and
\* the abstract go
BuildPaper ==
    /\ op = "summary" /\ output = <<>>
    /\ output' = <<[published_date |->
                        IF input.raw.source = "arxiv"
                        THEN published_date_from_arxiv(input.raw.published)
                        ELSE published_date_from_semantic_scholar(input.raw.published, input.now),
                    abstract_text |-> input.raw.abstract_text]>>
    /\ UNCHANGED <<op, params, threshold, pc, pcA, pcS, arxiv_result, ss_result,
                   order, net, result, matched, input>>
    /\ UNCHANGED <<paperVars, exportVars>>

\* PaperSummary::from_academic_paper
Summarize ==
    /\ op = "summary" /\ Len(output) = 1
    /\ LET snippet == abstract_snippet(output[1].abstract_text)
       IN  output' = Append(output,
               [panicked |-> snippet.panicked,
                year |-> IF snippet.panicked THEN 0 ELSE summary_year(output[1].published_date),
                abstract_snippet |-> snippet])
    /\ UNCHANGED <<op, params, threshold, pc, pcA, pcS, arxiv_result, ss_result,
                   order, net, result, matched, input>>
    /\ UNCHANGED <<paperVars, exportVars>>

\* ReferenceStatistics::from_papers on the list of this one summary
SummaryStatistics ==
    /\ op = "summary" /\ Len(output) = 2 /\ ~output[2].panicked
    /\ LET papers == <<Summary("P", output[2].year, "", 0)>>
       IN  output' = Append(output, [by_year |-> count_years(papers, <<>>),
                                     year_range |-> year_range(papers)])
    /\ UNCHANGED <<op, params, threshold, pc, pcA, pcS, arxiv_result, ss_result,
                   order, net, result, matched, input>>
    /\ UNCHANGED <<paperVars, exportVars>>

NextSummary == BuildPaper \/ Summarize \/ SummaryStatistics

SpecSummary == InitSummary /\ [][NextSummary]_vars

(***************************************************************************)
(* Claims about the summary.                                               *)
(***************************************************************************)
\* the raw record has no date, or a date string that does not parse
UnknownDate ==
    \/ input.raw.source = "ss" /\ input.raw.published = None
    \/ input.raw.source = "ss" /\ input.raw.published # None
           /\ input.raw.published[1].form \notin {"rfc2822", "rfc3339", "ymd", "ymd_hms"}
    \/ input.raw.source = "arxiv"
           /\ input.raw.published.form \notin {"rfc2822", "rfc3339", "ymd", "ymd_hms"}

\* C25: the summary of a paper whose publication date is unknown (none, or a
\* string that does not parse) has year 0 and is counted neither in by_year
\* nor in year_range.
C25_UnknownDateIsYearZero ==
    (op = "summary" /\ UnknownDate) =>
        /\ (Len(output) >= 2 /\ ~output[2].panicked) => output[2].year = 0
        /\ Len(output) >= 3 => (output[3].by_year = <<>> /\ output[3].year_range = None)

\* C26: from_academic_paper returns for every abstract, and the snippet is
\* the abstract when it has at most 500 characters, else its first 500
\* characters followed by "...".
C26_SnippetByCharacters ==
    (op = "summary" /\ Len(output) >= 2) =>
        /\ ~output[2].panicked
        /\ output[2].abstract_snippet = abstract_snippet_by_chars(input.raw.abstract_text)

(***************************************************************************)
(* Claims about the ID lookup.                                             *)
(***************************************************************************)
\* the lookup by arXiv id got its paper: the exact-title lookup at Semantic
\* Scholar, which follows the primary fetch, was issued
ArxivFetched == is_some(params.arxiv_id) /\ SemanticScholar \in net
IdLookupDone == op = "search" /\ is_id_lookup(params) /\ pc = "done"

\* C27: an ID lookup never starts the two search futures, and a lookup by
\* arXiv id whose paper was fetched returns that paper with the data of arXiv,
\* whether enrichment and text extraction worked or not (when a Semantic
\* Scholar id is looked up as well, only the failure of that fetch is an error).
C27_IdLookupAbsorbsFailures ==
    /\ (op = "search" /\ is_id_lookup(params)) =>
           /\ pc \in {"start", "done"} /\ pcA = "idle" /\ pcS = "idle"
           /\ arxiv_result = None /\ ss_result = None /\ order = <<>>
    /\ (IdLookupDone /\ ArxivFetched) =>
           \/ /\ result[1].ok
              /\ result[1].sources[1] = ArXiv
              /\ result[1].papers[1].source = ArXiv
              /\ result[1].papers[1].id = 1
              /\ result[1].papers[1].title \in TitlePool
           \/ /\ ~result[1].ok /\ is_some(params.ss_id)
              /\ result[1].err = AppError("SemanticScholarError", "Fetch details failed")

\* a lookup by arXiv id alone: the paper is returned, neither enriched nor
\* with extracted text, although Semantic Scholar was asked
C27_Witness ==
    /\ IdLookupDone /\ ArxivFetched /\ params.ss_id = None
    /\ result[1].ok /\ Len(result[1].papers) = 1
    /\ ~result[1].papers[1].ss_enriched
    /\ ~result[1].papers[1].extracted_text

(***************************************************************************)
(* Claims about the keyword step and the option flags of the export.       *)
(***************************************************************************)
FailedLlmCalls == {i \in 1..Len(llm_calls) : ~llm_calls[i].answer.ok}

\* C28: the keyword call comes first and the context call is issued only
\* after it succeeded, with the keywords it returned; the record has keywords
\* and research_context both or neither; when either call failed there is
\* exactly one 'Keyword extraction failed' warning (and none otherwise).
C28_KeywordsThenContext ==
    op = "export" =>
        /\ Len(llm_calls) <= 2
        /\ Len(llm_calls) >= 1 =>
               /\ llm_calls[1].call = "extract_keywords"
               /\ llm_calls[1].keywords = None
        /\ Len(llm_calls) = 2 =>
               /\ llm_calls[2].call = "extract_research_context"
               /\ llm_calls[1].answer.ok
               /\ llm_calls[2].keywords = llm_calls[1].answer.value
        /\ exported # None =>
               /\ (exported[1].keywords # None) <=> (exported[1].research_context # None)
               /\ exported[1].keywords # None =>
                      /\ Len(llm_calls) = 2 /\ FailedLlmCalls = {}
                      /\ exported[1].keywords = llm_calls[1].answer.value
                      /\ exported[1].research_context = llm_calls[2].answer.value
               /\ Cardinality(WarningsOf("Keyword extraction failed")) =
                      (IF FailedLlmCalls = {} THEN 0 ELSE 1)
               /\ (xpc \in {"write", "done"} /\ Len(llm_calls) >= 1 /\ FailedLlmCalls = {}) =>
                      exported[1].keywords # None

\* keywords k1, k2 extracted, then the context call received them and failed:
\* the written record has neither field and one warning
C28_Witness ==
    /\ op = "export" /\ xpc = "done" /\ outcome # None /\ outcome[1].ok
    /\ Len(llm_calls) = 2
    /\ llm_calls[1].answer = OkOpt(Some(<<"k1", "k2">>))
    /\ llm_calls[2].keywords = Some(<<"k1", "k2">>)
    /\ ~llm_calls[2].answer.ok
    /\ exported[1].keywords = None /\ exported[1].research_context = None
    /\ Cardinality(WarningsOf("Keyword extraction failed")) = 1

\* C29: in the written record an option flag is true only if the output of
\* its step is in the record: the analysis, the extracted text, the
\* citations, the references, the keywords.
C29_FlagsMeanIncluded ==
    (op = "export" /\ xpc = "done" /\ outcome # None /\ outcome[1].ok) =>
        LET record == outcome[1].value[1]
        IN  /\ record.options.analyzed => is_analyzed(record.paper)
            /\ record.options.text_extracted => has_extracted_text(record.paper)
            /\ record.options.citations_included => record.citations # None
            /\ record.options.references_included => record.references # None
            /\ record.options.keywords_extracted =>
                   (record.keywords # None /\ record.research_context # None)

(***************************************************************************)
(* PaperClient::fetch_citations and fetch_references on their own: the     *)
(* provider's edge list in, the Paper Records out.                         *)
(***************************************************************************)
OptEdgePapers == {None, Some(SsP1), Some(SsP2)}
EdgeLists ==
    SeqsUpTo({Edge(citing, cited) : citing \in OptEdgePapers, cited \in OptEdgePapers},
             MaxEdges)

InitEdges ==
    /\ \/ InitPure("fetch_citations")
       \/ InitPure("fetch_references")
    /\ input \in {l \in EdgeLists : TRUE}

\* PaperClient::fetch_citations, the provider having answered with `input`
ClientFetchCitations ==
    /\ op = "fetch_citations" /\ output = <<>>
    /\ output' = <<client_map(ss_fetch_citations(input), now)>>
    /\ UNCHANGED <<op, params, threshold, pc, pcA, pcS, arxiv_result, ss_result,
                   order, net, result, matched, input>>
    /\ UNCHANGED <<paperVars, exportVars>>

\* PaperClient::fetch_references, the provider having answered with `input`
ClientFetchReferences ==
    /\ op = "fetch_references" /\ output = <<>>
    /\ output' = <<client_map(ss_fetch_references(input), now)>>
    /\ UNCHANGED <<op, params, threshold, pc, pcA, pcS, arxiv_result, ss_result,
                   order, net, result, matched, input>>
    /\ UNCHANGED <<paperVars, exportVars>>

NextEdges == ClientFetchCitations \/ ClientFetchReferences

SpecEdges == InitEdges /\ [][NextEdges]_vars

\* the cited papers of the edges that carry one, in order
RECURSIVE CitedPapers(_)
CitedPapers(data) ==
    IF data = <<>> THEN <<>>
    ELSE (IF Head(data).cited_paper # None THEN <<Head(data).cited_paper[1]>> ELSE <<>>)
             \o CitedPapers(Tail(data))

\* C30: fetch_references returns the records of the cited papers of the
\* reference edges, one for each edge that carries a cited paper, in order.
C30_ReferencesAreCitedPapers ==
    (op = "fetch_references" /\ output # <<>>) =>
        output[1] = [i \in 1..Len(CitedPapers(input)) |->
                        AcademicPaper_from_semantic_scholar(CitedPapers(input)[i], now)]
====
